---------------------------- MODULE Spec2Model ----------------------------
(***************************************************************************)
(* A model of the scene core of excalidraw-mcp: the SceneStore (a file per *)
(* scene, written to a temporary path and renamed, with an in-memory cache *)
(* keyed by the file's mtime), the JsonEngine patch pipeline, and the      *)
(* SceneService calls with their per-scene promise-chain lock.             *)
(*                                                                         *)
(* Every asynchronous call is a coroutine: one action per segment of code  *)
(* between two awaits, and one action for each file-system operation the   *)
(* code awaits (the operation takes effect at some moment; the code that   *)
(* follows the await runs at a later one).                                 *)
(*                                                                         *)
(* Wall-clock stamps that the code writes into documents (updatedAt,       *)
(* updated) are left out of the document model: they differ between two    *)
(* runs of the same calls and no statement here is about them.             *)
(***************************************************************************)
EXTENDS Integers, Sequences, FiniteSets, TLC

(***************************************************************************)
(* Bounds of the model.                                                    *)
(***************************************************************************)
\* number of SceneService calls issued in one behaviour
MaxCalls == 2

\* the scene ids calls are issued for; "a" is persisted initially
SceneIds == {"a", "b"}

\* one SceneStore/SceneService pair per createExcalidrawMcpServer call
StdioServices == {1}
HttpServices == {1, 2}
AllServices == {1, 2}

(***************************************************************************)
(* Documents: SceneEnvelope (contracts.ts) and its elements.               *)
(***************************************************************************)

\* `const v = value` and then a use of v is written The({use : v \in {value}}):
\* the value is computed once, where it is bound
The(singleton) == CHOOSE result \in singleton : TRUE

\* computeRevisionHash: a digest of the serialized content, modelled as the
\* content itself (an injective digest).
computeRevisionHash(elements, appState, files, libraryItems) ==
    <<elements, appState, files, libraryItems>>

\* An element is a function from field names to values (a JS object): a field
\* may be missing.  Spread({...defaults, ...next}): next's own fields win.
Spread(defaults, next) == next @@ defaults

\* randomUUID(): the id given to an element that has none
GeneratedId == "uuid"

\* normalizeElement: the defaults of the required fields, then the element's
\* own fields spread over them.  (versionNonce, a random number, is left out.)
normalizeElement(next) ==
    Spread([id |-> GeneratedId, type |-> "rectangle", x |-> 0, y |-> 0,
            width |-> 100, height |-> 100, angle |-> 0, isDeleted |-> FALSE,
            version |-> 1],
           next)

normalizeElements(elements) ==
    [i \in 1..Len(elements) |-> normalizeElement(elements[i])]

\* a variant of normalizeScene: the metadata is carried over, not recomputed
normalizeSceneKeepsMetadata(scene) ==
    [scene EXCEPT !.elements = normalizeElements(@)]

\* normalizeScene: normalize the elements and recompute the derived metadata
\* over the content.
normalizeScene(scene) ==
    The({[s EXCEPT
              !.elements = elements,
              !.elementCount = Len(elements),
              !.fileCount = Cardinality(DOMAIN s.files),
              !.revisionHash = computeRevisionHash(elements, s.appState,
                                                   s.files, s.libraryItems)] :
          <<s, elements>> \in {<<scene, normalizeElements(scene.elements)>>}})

\* createSceneMetadata + the envelope createScene builds, before normalize
NewScene(sceneId, name, elements) ==
    [sceneId |-> sceneId, name |-> name, elementCount |-> 0, fileCount |-> 0,
     revisionHash |-> <<>>, elements |-> elements, appState |-> <<>>,
     files |-> <<>>, libraryItems |-> <<>>]

\* the value of a document slot that holds no document
NoDoc == NewScene("", "", <<>>)

\* createElementsFromSkeleton, one skeleton: the defaults, then the skeleton's
\* own fields spread over them.  (The styling fields, seed and versionNonce are
\* left out.)
createElementFromSkeleton(skeleton) ==
    Spread([id |-> GeneratedId, type |-> "rectangle", x |-> 0, y |-> 0,
            width |-> 120, height |-> 80, angle |-> 0, version |-> 1,
            isDeleted |-> FALSE],
           skeleton)

createElementsFromSkeleton(skeletons) ==
    [i \in 1..Len(skeletons) |-> createElementFromSkeleton(skeletons[i])]

\* mapById: a JS Map keyed by element id.  The keys are in first-insertion
\* order and a later element with the same id replaces the value.
RECURSIVE MapKeys(_)
MapKeys(elements) ==
    IF elements = <<>> THEN <<>>
    ELSE LET front == SubSeq(elements, 1, Len(elements) - 1)
             keys == MapKeys(front)
             id == elements[Len(elements)].id
         IN  IF \E i \in 1..Len(keys) : keys[i] = id THEN keys ELSE Append(keys, id)

MapGet(elements, id) ==
    LET idx == {i \in 1..Len(elements) : elements[i].id = id}
    IN  elements[CHOOSE i \in idx : \A j \in idx : j <= i]

\* the Map as a sequence of <<key, value>> entries
mapById(elements) ==
    LET keys == MapKeys(elements)
    IN  [i \in 1..Len(keys) |-> <<keys[i], MapGet(elements, keys[i])>>]

MapHas(map, key) == \E i \in 1..Len(map) : map[i][1] = key

MapValue(map, key) == map[CHOOSE i \in 1..Len(map) : map[i][1] = key][2]

MapSet(map, key, value) ==
    IF MapHas(map, key)
    THEN [i \in 1..Len(map) |-> IF map[i][1] = key THEN <<key, value>> ELSE map[i]]
    ELSE Append(map, <<key, value>>)

MapValues(map) == [i \in 1..Len(map) |-> map[i][2]]

\* elements.filter: the elements whose id is not among elementIds, in order
FilterOut(elements, elementIds) ==
    LET F[i \in 0..Len(elements)] ==
            IF i = 0 THEN <<>>
            ELSE IF elements[i].id \notin elementIds
                 THEN Append(F[i - 1], elements[i])
                 ELSE F[i - 1]
    IN  F[Len(elements)]

\* keyFor of mergeLibraryItems: String(item?.id ?? item?.name ??
\* JSON.stringify(item)).  (Every library item of the model has a string id
\* or a string name.)
keyFor(item) == IF "id" \in DOMAIN item THEN item.id ELSE item.name

\* the two loops of mergeLibraryItems over one Map: merged.set(keyFor(item), item)
RECURSIVE MergeInto(_, _)
MergeInto(merged, items) ==
    IF items = <<>> THEN merged
    ELSE The({MergeInto(MapSet(merged, keyFor(item), item), Tail(items)) :
              item \in {Head(items)}})

\* mergeLibraryItems: [...merged.values()], in first-insertion order of the keys
mergeLibraryItems(existing, incoming) ==
    MapValues(MergeInto(MergeInto(<<>>, existing), incoming))

(***************************************************************************)
(* JsonEngine.applyPatch.  An operation is a record with an op tag; the    *)
(* result says whether the batch threw, and holds the working copy.        *)
(***************************************************************************)

\* a variant of the update loop that passes over an id no element has
RECURSIVE ApplyUpdatesSkipsUnknown(_, _)
ApplyUpdatesSkipsUnknown(map, updates) ==
    IF updates = <<>> THEN [ok |-> TRUE, map |-> map]
    ELSE The({LET update == Head(updates)
              IN  IF ~MapHas(m, update.id)
                  THEN ApplyUpdatesSkipsUnknown(m, Tail(updates))
                  ELSE The({LET merged == Spread(existing, update.patch)
                                bumped == [merged EXCEPT !["version"] = existing.version + 1]
                            IN  ApplyUpdatesSkipsUnknown(MapSet(m, update.id, bumped),
                                                         Tail(updates)) :
                            existing \in {MapValue(m, update.id)}}) :
              m \in {map}})

\* case "updateElements": all updates of one operation, against one Map
RECURSIVE ApplyUpdates(_, _)
ApplyUpdates(map, updates) ==
    IF updates = <<>> THEN [ok |-> TRUE, map |-> map]
    ELSE The({LET update == Head(updates)
              IN  IF ~MapHas(m, update.id)
                  THEN [ok |-> FALSE, map |-> m]
                  ELSE The({LET merged == Spread(existing, update.patch)
                                bumped == [merged EXCEPT !["version"] = existing.version + 1]
                            IN  ApplyUpdates(MapSet(m, update.id, bumped), Tail(updates)) :
                            existing \in {MapValue(m, update.id)}}) :
              m \in {map}})

\* `operation.merge ? ... : ...`: an operation without the field does not merge
Merges(operation) == "merge" \in DOMAIN operation /\ operation.merge

\* one operation of the switch, applied to the working copy next; changed is
\* what the operation adds to changedElementIds
ApplyOperation(scene, operation) ==
  The({
    CASE operation.op = "setName" ->
            [ok |-> TRUE, changed |-> {},
             scene |-> [next EXCEPT !.name = operation.name]]
      [] operation.op = "addElements" ->
            The({[ok |-> TRUE,
                  changed |-> {created[i].id : i \in 1..Len(created)},
                  scene |-> [next EXCEPT !.elements =
                                normalizeElements(next.elements \o created)]] :
                 created \in {createElementsFromSkeleton(operation.elements)}})
      [] operation.op = "updateElements" ->
            The({IF r.ok
                 THEN [ok |-> TRUE,
                       changed |-> {operation.elements[i].id :
                                       i \in 1..Len(operation.elements)},
                       scene |-> [next EXCEPT !.elements = normalizeElements(MapValues(r.map))]]
                 ELSE [ok |-> FALSE, changed |-> {}, scene |-> next] :
                 r \in {ApplyUpdates(mapById(next.elements), operation.elements)}})
      [] operation.op = "deleteElements" ->
            LET Named(e) == e.id \in operation.elementIds
                Soft(e) == IF Named(e)
                           THEN [e EXCEPT !["isDeleted"] = TRUE, !["version"] = e.version + 1]
                           ELSE e
            IN  [ok |-> TRUE,
                 changed |-> {next.elements[i].id : i \in 1..Len(next.elements)}
                                 \cap operation.elementIds,
                 scene |-> [next EXCEPT !.elements =
                     IF operation.hardDelete
                     THEN FilterOut(next.elements, operation.elementIds)
                     ELSE [i \in 1..Len(next.elements) |-> Soft(next.elements[i])]]]
      [] operation.op = "setAppState" ->
            [ok |-> TRUE, changed |-> {},
             scene |-> [next EXCEPT !.appState =
                 IF Merges(operation) THEN Spread(next.appState, operation.appState)
                 ELSE operation.appState]]
      [] operation.op = "setLibrary" ->
            [ok |-> TRUE, changed |-> {},
             scene |-> [next EXCEPT !.libraryItems =
                 IF Merges(operation)
                 THEN mergeLibraryItems(next.libraryItems, operation.libraryItems)
                 ELSE operation.libraryItems]]
      [] operation.op = "setFiles" ->
            [ok |-> TRUE, changed |-> {},
             scene |-> [next EXCEPT !.files =
                 IF Merges(operation) THEN Spread(next.files, operation.files)
                 ELSE operation.files]] :
    next \in {scene}})

\* the for loop over the operations: stops at the first operation that throws
RECURSIVE ApplyOperations(_, _)
ApplyOperations(next, operations) ==
    IF operations = <<>> THEN [ok |-> TRUE, changed |-> {}, scene |-> next]
    ELSE The({IF r.ok
              THEN The({[rest EXCEPT !.changed = r.changed \cup @] :
                        rest \in {ApplyOperations(r.scene, Tail(operations))}})
              ELSE r :
              r \in {ApplyOperation(next, Head(operations))}})

\* a variant without the clone: the loop works on the caller's document
WorksOnArgument == FALSE

\* `const next = structuredClone(scene)`: the loop works on a copy
ClonesArgument == TRUE

\* applyPatch: the loop on a clone, then normalize and the revision hash.
\* argument is the caller's document after the call: untouched when the loop
\* worked on a clone, the working copy otherwise.
applyPatch(scene, operations) ==
    The({[ok |-> r.ok,
          scene |-> IF r.ok THEN normalizeScene(r.scene) ELSE r.scene,
          changedElementIds |-> r.changed,
          argument |-> IF ClonesArgument THEN scene ELSE r.scene] :
         r \in {ApplyOperations(scene, operations)}})

\* Math.min / Math.max over a non-empty set of numbers
MinOf(numbers) == CHOOSE n \in numbers : \A m \in numbers : n <= m
MaxOf(numbers) == CHOOSE n \in numbers : \A m \in numbers : m <= n

\* JsonEngine.fitToContent: the view is centred on the bounding box of the
\* non-deleted elements.  -cx = -(minX + maxX) / 2 is kept as an exact
\* fraction.
fitToContent(scene) ==
    The({LET nonDeleted == {i \in 1..Len(s.elements) : ~s.elements[i].isDeleted}
             minX == MinOf({s.elements[i].x : i \in nonDeleted})
             minY == MinOf({s.elements[i].y : i \in nonDeleted})
             maxX == MaxOf({s.elements[i].x + s.elements[i].width : i \in nonDeleted})
             maxY == MaxOf({s.elements[i].y + s.elements[i].height : i \in nonDeleted})
         IN  IF nonDeleted = {} THEN s
             ELSE normalizeScene([s EXCEPT !.appState =
                      Spread(s.appState,
                             [scrollX |-> [num |-> 0 - (minX + maxX), den |-> 2],
                              scrollY |-> [num |-> 0 - (minY + maxY), den |-> 2],
                              zoom |-> [value |-> 1]])]) :
         s \in {scene}})

\* a variant of the filter that keeps the deleted elements too
FilterNothing(elements) == elements

(***************************************************************************)
(* SceneService.listElements after its load.  options.type "" and           *)
(* options.limit 0 stand for an option that is not given.                  *)
(***************************************************************************)
\* elements.filter: the elements that are not deleted, in order
FilterLive(elements) ==
    LET F[i \in 0..Len(elements)] ==
            IF i = 0 THEN <<>>
            ELSE IF ~elements[i].isDeleted THEN Append(F[i - 1], elements[i])
                 ELSE F[i - 1]
    IN  F[Len(elements)]

\* elements.filter: the elements of the given type, in order
FilterType(elements, type) ==
    LET F[i \in 0..Len(elements)] ==
            IF i = 0 THEN <<>>
            ELSE IF elements[i].type = type THEN Append(F[i - 1], elements[i])
                 ELSE F[i - 1]
    IN  F[Len(elements)]

listElements(scene, options) ==
    LET live == IF options.includeDeleted THEN scene.elements
                ELSE FilterLive(scene.elements)
        typed == IF options.type # "" THEN FilterType(live, options.type) ELSE live
    IN  IF options.limit > 0 /\ options.limit < Len(typed)
        THEN SubSeq(typed, 1, options.limit)
        ELSE typed

(***************************************************************************)
(* applyDiagramQuality (diagramQuality.ts): the connector branch and the     *)
(* text branch.  null and the empty string are both written "": the code    *)
(* treats them alike wherever an id is tested.                             *)
(***************************************************************************)
CONNECTOR_TYPES == {"arrow", "line"}

\* the tolerance resolveTarget passes to pointInsideBounds
InferTolerance == 12

\* num(element.field): the field's number, 0 when the field is missing
Num(element, field) == IF field \in DOMAIN element THEN element[field] ELSE 0

\* boundsFor.  cx and cy are kept doubled (x1 + x2 and y1 + y2), which keeps
\* them whole numbers.
boundsFor(element) ==
    LET x == Num(element, "x")
        y == Num(element, "y")
        width == IF Num(element, "width") > 0 THEN Num(element, "width") ELSE 0
        height == IF Num(element, "height") > 0 THEN Num(element, "height") ELSE 0
    IN  [x1 |-> x, y1 |-> y, x2 |-> x + width, y2 |-> y + height,
         cx2 |-> x + x + width, cy2 |-> y + y + height]

pointInsideBounds(point, bounds, tolerance) ==
    /\ point.x >= bounds.x1 - tolerance
    /\ point.x <= bounds.x2 + tolerance
    /\ point.y >= bounds.y1 - tolerance
    /\ point.y <= bounds.y2 + tolerance

\* pointDistance, as four times its square: the same order as the distance
pointDistance(point, bounds) ==
    LET dx2 == point.x + point.x - bounds.cx2
        dy2 == point.y + point.y - bounds.cy2
    IN  dx2 * dx2 + dy2 * dy2

connectorEndpoints(connector) ==
    LET x == Num(connector, "x")
        y == Num(connector, "y")
        points == IF "points" \in DOMAIN connector THEN connector.points ELSE <<>>
    IN  IF Len(points) > 0
        THEN [start |-> [x |-> x + points[1][1], y |-> y + points[1][2]],
              end |-> [x |-> x + points[Len(points)][1],
                       y |-> y + points[Len(points)][2]]]
        ELSE [start |-> [x |-> x, y |-> y],
              end |-> [x |-> x + Num(connector, "width"),
                       y |-> y + Num(connector, "height")]]

\* a variant of the loop with `distance <= best.distance`: on equal distance
\* the later candidate replaces the earlier one
RECURSIVE InferBestLatestOnTies(_, _, _, _)
InferBestLatestOnTies(point, candidates, excludeId, k) ==
    IF k = 0 THEN [id |-> "", distance |-> 0]
    ELSE The({LET element == candidates[k]
                  bounds == boundsFor(element)
                  distance == pointDistance(point, bounds)
              IN  IF \/ element.id = "" \/ element.id = excludeId
                     \/ element.type \in CONNECTOR_TYPES
                     \/ element.isDeleted
                     \/ ~pointInsideBounds(point, bounds, InferTolerance)
                  THEN best
                  ELSE IF best.id = "" \/ distance <= best.distance
                       THEN [id |-> element.id, distance |-> distance]
                       ELSE best :
              best \in {InferBestLatestOnTies(point, candidates, excludeId, k - 1)}})

\* the loop of inferBindingTargetId over the first k candidates: the best so far
RECURSIVE InferBest(_, _, _, _)
InferBest(point, candidates, excludeId, k) ==
    IF k = 0 THEN [id |-> "", distance |-> 0]
    ELSE The({LET element == candidates[k]
                  bounds == boundsFor(element)
                  distance == pointDistance(point, bounds)
              IN  IF \/ element.id = "" \/ element.id = excludeId
                     \/ element.type \in CONNECTOR_TYPES
                     \/ element.isDeleted
                     \/ ~pointInsideBounds(point, bounds, InferTolerance)
                  THEN best
                  ELSE IF best.id = "" \/ distance < best.distance
                       THEN [id |-> element.id, distance |-> distance]
                       ELSE best :
              best \in {InferBest(point, candidates, excludeId, k - 1)}})

inferBindingTargetId(point, candidates, excludeId) ==
    InferBest(point, candidates, excludeId, Len(candidates)).id

\* idToElement.has(id)
HasElement(elements, id) == \E i \in 1..Len(elements) : elements[i].id = id

\* the element idToElement.get(id) refers to: the last one with the id
ElementIndex(elements, id) ==
    CHOOSE i \in 1..Len(elements) :
        elements[i].id = id /\ \A j \in 1..Len(elements) : elements[j].id = id => j <= i

\* extractBindingId(element.startBinding) and (element.endBinding)
extractBindingId(element, side) ==
    IF side \in DOMAIN element THEN element[side].elementId ELSE ""

\* customData.fromId and customData.toId
HintId(element, key) ==
    IF "customData" \in DOMAIN element /\ key \in DOMAIN element.customData
    THEN element.customData[key]
    ELSE ""

resolveTarget(hintId, currentId, endpoint, elements, elementId) ==
    IF currentId # "" /\ HasElement(elements, currentId) THEN currentId
    ELSE IF hintId # "" /\ HasElement(elements, hintId) THEN hintId
    ELSE inferBindingTargetId(endpoint, elements, elementId)

setBinding(connector, side, targetId) ==
    (side :> [elementId |-> targetId, focus |-> 0, gap |-> 0]) @@ connector

\* a variant that pushes the back-reference without looking for one
pushBoundElementsRef(target, connectorId, connectorType) ==
    LET existing == IF "boundElements" \in DOMAIN target THEN target.boundElements
                    ELSE <<>>
    IN  ("boundElements" :> Append(existing, [id |-> connectorId,
                                              type |-> connectorType])) @@ target

ensureBoundElementsRef(target, connectorId, connectorType) ==
    LET existing == IF "boundElements" \in DOMAIN target THEN target.boundElements
                    ELSE <<>>
    IN  IF \E k \in 1..Len(existing) : existing[k].id = connectorId
        THEN target
        ELSE ("boundElements" :> Append(existing, [id |-> connectorId,
                                                   type |-> connectorType])) @@ target

UnboundIssue(elementId, side) ==
    [code |-> "CONNECTOR_UNBOUND", severity |-> "error", elementId |-> elementId,
     side |-> side]

\* one endpoint of connector i: the issue, or the fix, or nothing
QualitySide(state, i, side, sideName, resolvedId, fix) ==
    LET connector == state.elements[i]
        bindingId == extractBindingId(connector, side)
    IN  IF resolvedId = ""
        THEN [state EXCEPT !.issues = Append(@, UnboundIssue(connector.id, sideName))]
        ELSE IF (bindingId = "" \/ bindingId # resolvedId) /\ fix
        THEN The({[state EXCEPT
                      !.elements =
                          [bound EXCEPT ![ElementIndex(bound, resolvedId)] =
                              ensureBoundElementsRef(@, connector.id, connector.type)],
                      !.fixesApplied = @ + 1] :
                  bound \in {[state.elements EXCEPT
                                 ![i] = setBinding(@, side, resolvedId)]}})
        ELSE state

\* Text is a sequence of characters.
OVERFLOW_CHAR_FACTOR_PERCENT == 58
DEFAULT_FONT_SIZE == 20
DEFAULT_LINE_HEIGHT_PERCENT == 125
CONTAINER_PADDING == 16

\* the characters /\s/ matches
Whitespace == {" ", "\t", "\r", "\n"}

\* text.replace(/\r\n/g, "\n")
ReplaceCRLF(text) ==
    LET F[i \in 0..Len(text)] ==
            IF i = 0 THEN <<>>
            ELSE IF text[i] = "\r" /\ i < Len(text) /\ text[i + 1] = "\n" THEN F[i - 1]
                 ELSE Append(F[i - 1], text[i])
    IN  F[Len(text)]

\* text.split(separator) for a set of one-character separators: the pieces
\* between them, empty ones included
SplitOn(text, separators) ==
    LET F[i \in 0..Len(text)] ==
            IF i = 0 THEN <<<<>>>>
            ELSE The({IF text[i] \in separators THEN Append(pieces, <<>>)
                      ELSE [pieces EXCEPT ![Len(pieces)] = Append(@, text[i])] :
                      pieces \in {F[i - 1]}})
    IN  F[Len(text)]

\* .filter(Boolean) on a list of strings: the non-empty ones
NonEmpty(parts) ==
    LET F[i \in 0..Len(parts)] ==
            IF i = 0 THEN <<>>
            ELSE IF parts[i] # <<>> THEN Append(F[i - 1], parts[i])
                 ELSE F[i - 1]
    IN  F[Len(parts)]

\* parts.join(separator)
Join(parts, separator) ==
    LET F[i \in 0..Len(parts)] ==
            IF i = 0 THEN <<>>
            ELSE IF i = 1 THEN parts[1]
                 ELSE F[i - 1] \o <<separator>> \o parts[i]
    IN  F[Len(parts)]

\* the loop of wrapText over the words of one paragraph, and lines.join
WrapWords(words, maxCharsPerLine) ==
    LET F[i \in 1..Len(words)] ==
            IF i = 1 THEN [lines |-> <<>>, current |-> words[1]]
            ELSE The({IF Len(candidate) <= maxCharsPerLine
                      THEN [lines |-> previous.lines, current |-> candidate]
                      ELSE [lines |-> Append(previous.lines, previous.current),
                            current |-> words[i]] :
                      <<previous, candidate>> \in
                          {<<prev, prev.current \o <<" ">> \o words[i]>> :
                              prev \in {F[i - 1]}}})
    IN  IF words = <<>> THEN <<>>
        ELSE The({Join(Append(last.lines, last.current), "\n") :
                  last \in {F[Len(words)]}})

wrapText(text, maxCharsPerLine) ==
    LET paragraphs == SplitOn(ReplaceCRLF(text), {"\n"})
    IN  Join([p \in 1..Len(paragraphs) |->
                 WrapWords(NonEmpty(SplitOn(paragraphs[p], Whitespace)), maxCharsPerLine)],
             "\n")

\* the length of the longest line of a text
MaxLineLength(text) ==
    LET lines == SplitOn(text, {"\n"})
    IN  MaxOf({Len(lines[k]) : k \in 1..Len(lines)})

\* estimateTextWidth, in hundredths
estimateTextWidth(text, fontSize) ==
    MaxLineLength(text) * fontSize * OVERFLOW_CHAR_FACTOR_PERCENT

\* String(element.text ?? element.originalText ?? "")
TextOf(element) ==
    IF "text" \in DOMAIN element THEN element.text
    ELSE IF "originalText" \in DOMAIN element THEN element.originalText
    ELSE <<>>

\* Math.max(8, num(element.fontSize, DEFAULT_FONT_SIZE))
FontSizeOf(element) ==
    MaxOf({8, IF "fontSize" \in DOMAIN element THEN element.fontSize
              ELSE DEFAULT_FONT_SIZE})

\* Math.max(1, num(element.lineHeight, DEFAULT_LINE_HEIGHT)), in hundredths;
\* a lineHeight field holds hundredths
LineHeightOf(element) ==
    MaxOf({100, IF "lineHeight" \in DOMAIN element THEN element.lineHeight
                ELSE DEFAULT_LINE_HEIGHT_PERCENT})

\* Math.max(32, Math.max(40, num(container.width, 40)) - CONTAINER_PADDING)
MaxTextWidth(container) ==
    MaxOf({32, MaxOf({40, IF "width" \in DOMAIN container THEN container.width
                          ELSE 40}) - CONTAINER_PADDING})

\* Math.max(8, Math.floor(maxTextWidth / (fontSize * OVERFLOW_CHAR_FACTOR)))
MaxChars(maxTextWidth, fontSize) ==
    MaxOf({8, (maxTextWidth * 100) \div (fontSize * OVERFLOW_CHAR_FACTOR_PERCENT)})

OverflowIssue(elementId, containerId) ==
    [code |-> "TEXT_OVERFLOW", severity |-> "warning", elementId |-> elementId,
     containerId |-> containerId]

\* the text branch for element i: nothing for a text without a container or
\* with a missing or deleted one; the issue when the estimated width exceeds
\* the container's; the rewrap in fix mode
QualityText(state, i, fix) ==
    LET element == state.elements[i]
        containerId == IF "containerId" \in DOMAIN element THEN element.containerId ELSE ""
        container == state.elements[ElementIndex(state.elements, containerId)]
        text == TextOf(element)
        fontSize == FontSizeOf(element)
        maxTextWidth == MaxTextWidth(container)
        wrapped == wrapText(text, MaxChars(maxTextWidth, fontSize))
        lines == Len(SplitOn(wrapped, {"\n"}))
        needed == (lines * fontSize * LineHeightOf(element) + 99) \div 100
        fixed == ("text" :> wrapped) @@ ("originalText" :> wrapped)
                    @@ [element EXCEPT !["width"] = maxTextWidth,
                                       !["height"] = MaxOf({@, needed})]
    IN  IF containerId = "" THEN state
        ELSE IF ~HasElement(state.elements, containerId) THEN state
        ELSE IF container.isDeleted THEN state
        ELSE IF estimateTextWidth(text, fontSize) <= maxTextWidth * 100 THEN state
        ELSE IF ~fix
        THEN [state EXCEPT !.issues = Append(@, OverflowIssue(element.id, containerId))]
        ELSE [state EXCEPT !.issues = Append(@, OverflowIssue(element.id, containerId)),
                           !.elements = [@ EXCEPT ![i] = fixed],
                           !.fixesApplied = @ + 1]

\* the body of the loop for element i
QualityElement(state, i, fix) ==
    LET element == state.elements[i]
        endpoints == connectorEndpoints(element)
        resolvedStartId ==
            resolveTarget(HintId(element, "fromId"), extractBindingId(element, "startBinding"),
                          endpoints.start, state.elements, element.id)
        resolvedEndId ==
            resolveTarget(HintId(element, "toId"), extractBindingId(element, "endBinding"),
                          endpoints.end, state.elements, element.id)
    IN  IF element.id = "" THEN state
        ELSE IF element.type = "text" THEN QualityText(state, i, fix)
        ELSE IF element.type \notin CONNECTOR_TYPES THEN state
        ELSE The({QualitySide(afterStart, i, "endBinding", "end", resolvedEndId, fix) :
                  afterStart \in {QualitySide(state, i, "startBinding", "start",
                                              resolvedStartId, fix)}})

RECURSIVE QualityLoop(_, _, _)
QualityLoop(state, k, fix) ==
    IF k = 0 THEN state
    ELSE The({QualityElement(before, k, fix) :
              before \in {QualityLoop(state, k - 1, fix)}})

\* a variant without the copies: the loop works on the caller's elements
SharesElements == FALSE

\* `elements: scene.elements.map((element) => ({ ...element }))`: the loop
\* works on copies of the elements; setBinding and the text fix assign fields
\* of a copy, ensureBoundElementsRef assigns a copied array to a copy
CopiesElements == TRUE

\* argument is the caller's document after the call: untouched when the loop
\* worked on copies, holding the changed elements otherwise
applyDiagramQuality(scene, fix) ==
    The({[scene |-> [scene EXCEPT !.elements = after.elements],
          issues |-> after.issues,
          fixesApplied |-> after.fixesApplied,
          argument |-> IF CopiesElements THEN scene
                       ELSE [scene EXCEPT !.elements = after.elements]] :
         after \in {QualityLoop([elements |-> scene.elements, issues |-> <<>>,
                                 fixesApplied |-> 0],
                                Len(scene.elements), fix)}})

(***************************************************************************)
(* Text of data URLs and file payloads.                                    *)
(***************************************************************************)

\* the characters of the strings the files of the model hold ("" stands for
\* a missing value where the code reads `?? ""`)
Utf8(text) ==
    CASE text = "" -> <<>>
      [] text = "data:" -> <<"d", "a", "t", "a", ":">>
      [] text = "data:1" -> <<"d", "a", "t", "a", ":", "1">>
      [] text = "data:2" -> <<"d", "a", "t", "a", ":", "2">>
      [] text = "http:1" -> <<"h", "t", "t", "p", ":", "1">>
      [] text = "data:image/png;base64,QQ==" ->
            <<"d", "a", "t", "a", ":", "i", "m", "a", "g", "e", "/", "p", "n", "g",
              ";", "b", "a", "s", "e", "6", "4", ",", "Q", "Q", "=", "=">>
      [] text = "data:image/png;base64,ZGF0YTox" ->
            <<"d", "a", "t", "a", ":", "i", "m", "a", "g", "e", "/", "p", "n", "g",
              ";", "b", "a", "s", "e", "6", "4", ",", "Z", "G", "F", "0", "Y", "T",
              "o", "x">>

\* String.prototype.startsWith
StartsWith(text, prefix) ==
    LET chars == Utf8(text)
        head == Utf8(prefix)
    IN  Len(chars) >= Len(head) /\ SubSeq(chars, 1, Len(head)) = head

\* file.dataURL, "" when the file has none
DataURLOf(file) == IF "dataURL" \in DOMAIN file THEN file.dataURL ELSE ""

(***************************************************************************)
(* SceneService.validateScene after its load.                              *)
(***************************************************************************)

\* the first loop of validateScene over elements[1..n]: an element without an
\* id is reported and skipped, an id seen before is reported
RECURSIVE ElementIssues(_, _)
ElementIssues(elements, n) ==
    IF n = 0 THEN [issues |-> <<>>, elementIds |-> {}]
    ELSE The({LET element == elements[n]
              IN  IF "id" \notin DOMAIN element \/ element.id = ""
                  THEN [prior EXCEPT !.issues =
                            Append(@, [issue |-> "Element missing id", id |-> ""])]
                  ELSE [issues |-> IF element.id \in prior.elementIds
                                   THEN Append(prior.issues,
                                               [issue |-> "Duplicate element id",
                                                id |-> element.id])
                                   ELSE prior.issues,
                        elementIds |-> prior.elementIds \cup {element.id}] :
              prior \in {ElementIssues(elements, n - 1)}})

\* the second loop: the files whose dataURL is missing or is not a data: URL
\* (one issue each, in the order of Object.keys)
FileIssues(sceneFiles) ==
    {[issue |-> "Invalid file data URL", id |-> fileId] :
        fileId \in {id \in DOMAIN sceneFiles :
                        \/ DataURLOf(sceneFiles[id]) = ""
                        \/ ~StartsWith(DataURLOf(sceneFiles[id]), "data:")}}

\* a variant of ErrorIssues: every quality issue counts
AnySeverityIssues(issues) == {k \in 1..Len(issues) : TRUE}

\* quality.issues.filter((issue) => issue.severity === "error")
ErrorIssues(issues) == {k \in 1..Len(issues) : issues[k].severity = "error"}

\* the report validateScene returns for the document load gave it
validateScene(scene) ==
    The({[kind |-> "validate",
          valid |-> Len(elementIssues) = 0 /\ fileIssues = {}
                        /\ ErrorIssues(quality.issues) = {},
          issues |-> [elements |-> elementIssues, files |-> fileIssues],
          qualityIssues |-> quality.issues,
          revisionHash |-> scene.revisionHash] :
         <<elementIssues, fileIssues, quality>> \in
            {<<ElementIssues(scene.elements, Len(scene.elements)).issues,
               FileIssues(scene.files),
               applyDiagramQuality(scene, FALSE)>>}})

(***************************************************************************)
(* The patch batches the calls draw their operations from.                 *)
(***************************************************************************)
Skeleton(id, x) == [id |-> id, x |-> x, y |-> 0]

\* adds element e1
BatchAdd == <<[op |-> "addElements", elements |-> <<Skeleton("e1", 10)>>]>>

\* renames the scene, then updates e1: throws NOT_FOUND after the rename was
\* applied to the working copy unless e1 was added before
BatchRenameUpdate ==
    <<[op |-> "setName", name |-> "renamed"],
      [op |-> "updateElements", elements |-> <<[id |-> "e1", patch |-> [x |-> 20]]>>]>>

\* moves e0 (each application raises its version)
BatchMove == <<[op |-> "updateElements", elements |-> <<[id |-> "e0", patch |-> [x |-> 30]]>>]>>

\* soft-deletes e0 and merges a key into the view state
BatchDelete ==
    <<[op |-> "deleteElements", elementIds |-> {"e0"}, hardDelete |-> FALSE],
      [op |-> "setAppState", appState |-> [theme |-> "dark"], merge |-> TRUE]>>

\* adds e1, then updates it
BatchAddThenUpdate ==
    <<[op |-> "addElements", elements |-> <<Skeleton("e1", 10)>>],
      [op |-> "updateElements", elements |-> <<[id |-> "e1", patch |-> [x |-> 20]]>>]>>

\* removes e0 from the document
BatchHardDelete ==
    <<[op |-> "deleteElements", elementIds |-> {"e0"}, hardDelete |-> TRUE]>>

\* removes e0, then updates it
BatchHardDeleteThenUpdate ==
    <<[op |-> "deleteElements", elementIds |-> {"e0"}, hardDelete |-> TRUE],
      [op |-> "updateElements", elements |-> <<[id |-> "e0", patch |-> [x |-> 30]]>>]>>

\* soft-deletes e0
BatchSoftDelete ==
    <<[op |-> "deleteElements", elementIds |-> {"e0"}, hardDelete |-> FALSE]>>

\* deletes an id no element has
BatchDeleteUnknown ==
    <<[op |-> "deleteElements", elementIds |-> {"zz"}, hardDelete |-> FALSE]>>

\* updates an id no element has
BatchUpdateUnknown ==
    <<[op |-> "updateElements", elements |-> <<[id |-> "zz", patch |-> [x |-> 30]]>>]>>

\* adds an element under the caller-supplied id e0
BatchAddSameId == <<[op |-> "addElements", elements |-> <<Skeleton("e0", 50)>>]>>

\* updates e1 with a patch that holds an id field
BatchUpdateId ==
    <<[op |-> "updateElements", elements |-> <<[id |-> "e1", patch |-> [id |-> "e0"]]>>]>>

\* replaces the files, then merges one more in
BatchSetFiles ==
    <<[op |-> "setFiles", files |-> [f1 |-> [dataURL |-> "data:1"]], merge |-> FALSE],
      [op |-> "setFiles", files |-> [f2 |-> [dataURL |-> "data:2"]], merge |-> TRUE]>>

\* adds two rectangles and an arrow from inside the first to inside the second
BatchAddDiagram ==
    <<[op |-> "addElements", elements |->
        <<[id |-> "n1", type |-> "rectangle", x |-> 0, y |-> 200, width |-> 180, height |-> 80],
          [id |-> "n2", type |-> "rectangle", x |-> 340, y |-> 200, width |-> 180, height |-> 80],
          [id |-> "c1", type |-> "arrow", x |-> 80, y |-> 240,
           points |-> <<<<0, 0>>, <<320, 0>>>>]>>]>>

\* the same, the arrow naming the rectangles in customData and lying outside them
BatchAddHinted ==
    <<[op |-> "addElements", elements |->
        <<[id |-> "n1", type |-> "rectangle", x |-> 0, y |-> 200, width |-> 180, height |-> 80],
          [id |-> "n2", type |-> "rectangle", x |-> 340, y |-> 200, width |-> 180, height |-> 80],
          [id |-> "c1", type |-> "arrow", x |-> 80, y |-> 400,
           points |-> <<<<0, 0>>, <<320, 0>>>>,
           customData |-> [fromId |-> "n1", toId |-> "n2"]]>>]>>

\* adds a container k1 and a text t1 bound to it
BatchAddLabel ==
    <<[op |-> "addElements", elements |->
        <<[id |-> "k1", type |-> "rectangle", x |-> 0, y |-> 100, width |-> 180, height |-> 80],
          [id |-> "t1", type |-> "text", containerId |-> "k1", x |-> 10, y |-> 120,
           width |-> 100, height |-> 24]>>]>>

\* soft-deletes the container k1
BatchSoftDeleteContainer ==
    <<[op |-> "deleteElements", elementIds |-> {"k1"}, hardDelete |-> FALSE]>>

\* removes the container k1
BatchHardDeleteContainer ==
    <<[op |-> "deleteElements", elementIds |-> {"k1"}, hardDelete |-> TRUE]>>

\* adds an element whose id is the empty string
BatchAddNoId == <<[op |-> "addElements", elements |-> <<Skeleton("", 70)>>]>>

\* adds an arrow far from every shape
BatchAddLooseArrow ==
    <<[op |-> "addElements", elements |->
        <<[id |-> "c2", type |-> "arrow", x |-> 1000, y |-> 1000,
           points |-> <<<<0, 0>>, <<50, 0>>>>]>>]>>

\* adds a container k2 forty wide and a text t2 bound to it that reads
\* "aaaa aaaa"
BatchAddLongLabel ==
    <<[op |-> "addElements", elements |->
        <<[id |-> "k2", type |-> "rectangle", x |-> 0, y |-> 300, width |-> 40, height |-> 80],
          [id |-> "t2", type |-> "text", containerId |-> "k2", x |-> 4, y |-> 320,
           width |-> 100, height |-> 24,
           text |-> <<"a", "a", "a", "a", " ", "a", "a", "a", "a">>]>>]>>

\* merges in a file whose dataURL is not a data: URL
BatchSetBadFile ==
    <<[op |-> "setFiles", files |-> [f3 |-> [dataURL |-> "http:1"]], merge |-> TRUE]>>

\* merges in a file without a dataURL
BatchSetNoUrlFile ==
    <<[op |-> "setFiles", files |-> [f4 |-> [mimeType |-> "image/png"]], merge |-> TRUE]>>

\* replaces the files by none
BatchClearFiles == <<[op |-> "setFiles", files |-> <<>>, merge |-> FALSE]>>

\* library items: two with an id (the second a later state of the first) and
\* one with a name only
LibraryItemA == [id |-> "l1", status |-> "published"]
LibraryItemA2 == [id |-> "l1", status |-> "unpublished"]
LibraryItemB == [name |-> "n1"]

\* setLibrary: items and the merge flag
BatchSetLibrary(libraryItems, merge) ==
    <<[op |-> "setLibrary", libraryItems |-> libraryItems, merge |-> merge]>>

\* SceneService.patchAppState(sceneId, appState, merge = true): the operation
\* it hands to patchScene; merge "omitted" stands for a call without the
\* argument
PatchAppStateOps(appState, merge) ==
    <<[op |-> "setAppState", appState |-> appState,
       merge |-> IF merge = "omitted" THEN TRUE ELSE merge = "true"]>>

\* a setAppState operation as a caller of patchScene writes it: the merge
\* field is optional
SetAppStateOps(appState, merge) ==
    IF merge = "omitted" THEN <<[op |-> "setAppState", appState |-> appState]>>
    ELSE <<[op |-> "setAppState", appState |-> appState, merge |-> merge = "true"]>>

BatchNames == {"add", "renameUpdate", "move", "delete"}

BatchOps(batch) ==
    CASE batch = "add" -> BatchAdd
      [] batch = "renameUpdate" -> BatchRenameUpdate
      [] batch = "move" -> BatchMove
      [] batch = "delete" -> BatchDelete
      [] batch = "addThenUpdate" -> BatchAddThenUpdate
      [] batch = "hardDelete" -> BatchHardDelete
      [] batch = "hardDeleteThenUpdate" -> BatchHardDeleteThenUpdate
      [] batch = "softDelete" -> BatchSoftDelete
      [] batch = "deleteUnknown" -> BatchDeleteUnknown
      [] batch = "updateUnknown" -> BatchUpdateUnknown
      [] batch = "addSameId" -> BatchAddSameId
      [] batch = "updateId" -> BatchUpdateId
      [] batch = "setFiles" -> BatchSetFiles
      [] batch = "addDiagram" -> BatchAddDiagram
      [] batch = "addLabel" -> BatchAddLabel
      [] batch = "softDeleteContainer" -> BatchSoftDeleteContainer
      [] batch = "hardDeleteContainer" -> BatchHardDeleteContainer
      [] batch = "addHinted" -> BatchAddHinted
      [] batch = "addNoId" -> BatchAddNoId
      [] batch = "addLooseArrow" -> BatchAddLooseArrow
      [] batch = "addLongLabel" -> BatchAddLongLabel
      [] batch = "setBadFile" -> BatchSetBadFile
      [] batch = "setNoUrlFile" -> BatchSetNoUrlFile
      [] batch = "clearFiles" -> BatchClearFiles
      [] batch = "libAB" -> BatchSetLibrary(<<LibraryItemA, LibraryItemB>>, TRUE)
      [] batch = "libBA" -> BatchSetLibrary(<<LibraryItemB, LibraryItemA>>, TRUE)
      [] batch = "libA2" -> BatchSetLibrary(<<LibraryItemA2>>, TRUE)
      [] batch = "libOnlyB" -> BatchSetLibrary(<<LibraryItemB>>, FALSE)
      [] batch = "libAA" -> BatchSetLibrary(<<LibraryItemA, LibraryItemA>>, FALSE)
      [] batch = "themeMerge" -> SetAppStateOps([theme |-> "dark"], "true")
      [] batch = "zoomOmitted" -> SetAppStateOps([zoom |-> 2], "omitted")
      [] batch = "gridReplace" -> SetAppStateOps([grid |-> 10], "false")
      [] batch = "zoomViaService" -> PatchAppStateOps([zoom |-> 3], "omitted")
      [] batch = "gridViaServiceReplace" -> PatchAppStateOps([grid |-> 20], "false")

\* the elements createScene is given: none, or two that share an id
CreateInput(input) ==
    IF input = "twins"
    THEN <<[id |-> "t", type |-> "rectangle", x |-> 0, y |-> 0],
           [id |-> "t", type |-> "ellipse", x |-> 200, y |-> 0]>>
    ELSE <<>>

\* the document persisted for a scene before the first call
SeedDoc(sceneId) ==
    normalizeScene(NewScene(sceneId, "seed", createElementsFromSkeleton(<<Skeleton("e0", 0)>>)))

(***************************************************************************)
(* State.                                                                  *)
(***************************************************************************)
VARIABLES
    calls,       \* the calls issued so far, in arrival order: one record each
    files,       \* the storage root: scene id -> the scene file
    tmpFiles,    \* the storage root: call -> the file at the tmpPath of its save
    cache,       \* SceneStore.cache of each service: scene id -> CachedScene
    sceneLocks,  \* SceneService.sceneLocks of each service: key -> promise
    clock,       \* the file system's timestamp of the latest write
    history,     \* scene id -> every document its file has held
    sessionActiveScene,  \* SceneService.sessionActiveScene: session id -> scene id
    browserEngine,       \* the BrowserEngine's fields browser, context, page, recycleTimer
    playwright           \* what Playwright has started: browsers, contexts, pages

vars == <<calls, files, tmpFiles, cache, sceneLocks, clock, history, sessionActiveScene,
          browserEngine, playwright>>

\* the sessions that call the server
SessionIds == {"s1", "s2"}

\* no entry in sessionActiveScene
NoActiveScene == "none"

\* null in a field of the BrowserEngine, and no timer
Null == 0

\* new BrowserEngine(): the fields' initializers
NewBrowserEngine == [browser |-> Null, context |-> Null, page |-> Null, recycleTimer |-> Null]

\* left alone by everything but the session calls and the BrowserEngine
UnchangedSessionsAndBrowser == UNCHANGED <<sessionActiveScene, browserEngine, playwright>>

\* left alone by everything but the BrowserEngine
UnchangedBrowser == UNCHANGED <<browserEngine, playwright>>

\* a file: absent, being written (partial), or holding a serialized document
NoFile == [exists |-> FALSE, partial |-> FALSE, doc |-> NoDoc, mtimeMs |-> 0]
PartialFile == [exists |-> TRUE, partial |-> TRUE, doc |-> NoDoc, mtimeMs |-> 0]
FullFile(doc, mtimeMs) == [exists |-> TRUE, partial |-> FALSE, doc |-> doc, mtimeMs |-> mtimeMs]

NoCached == [present |-> FALSE, mtimeMs |-> 0, scene |-> NoDoc]
Cached(mtimeMs, scene) == [present |-> TRUE, mtimeMs |-> mtimeMs, scene |-> scene]

\* promises of withSceneLock: call c's `next`, and the promise it stores in the
\* map, current.then(() => next)
NoPromise == [kind |-> "none", call |-> 0]
NextPromise(c) == [kind |-> "next", call |-> c]
ChainPromise(c) == [kind |-> "chain", call |-> c]

LockedKinds == {"patch", "normalize", "fit", "attach", "detach"}

\* a variant of LockKey: one key, hence one chain, for every scene
LockKeyShared(sceneId) == "a"

\* the Map key withSceneLock uses for a scene
LockKey(sceneId) == sceneId

\* the value of the report slot of a call that returned nothing more than a
\* document, or has not returned
NoReport == [kind |-> "none"]

NewCall(kind, svc, sceneId, batch, pc, pred, overlap) ==
    [kind |-> kind, svc |-> svc, sceneId |-> sceneId, batch |-> batch, pc |-> pc,
     pred |-> pred, overlap |-> overlap, released |-> FALSE, statExists |-> FALSE, statMtimeMs |-> 0,
     raw |-> NoFile, scene |-> NoDoc, result |-> "pending", report |-> NoReport,
     ranBody |-> FALSE, beforeFile |-> NoFile, beforeServed |-> NoDoc, target |-> Null]

\* Fields of a call record: kind, svc, sceneId, batch are the call's arguments;
\* pc is the await it is suspended at; pred is the call whose chain promise is
\* its `current` (0: Promise.resolve()); released: it has called release();
\* statExists, statMtimeMs, raw, scene are the locals of load/save; result is
\* "pending", "ok" or the error thrown; report is the value validateScene,
\* attachFile or detachFile returns.  overlap, ranBody, beforeFile
\* and beforeServed record history: whether an earlier call on the scene was
\* unfinished on arrival, whether fn was entered, and the scene file and the
\* document load would serve when fn was entered.  target is the browser,
\* context or page the Playwright call a BrowserEngine method awaits was made
\* on, and during page.evaluate the local `page` of exportScene.
Issued == 1..Len(calls)

\* what store.load of this service would return for the scene now
Served(svc, sceneId) ==
    IF cache[svc][sceneId].present /\ cache[svc][sceneId].mtimeMs = files[sceneId].mtimeMs
    THEN cache[svc][sceneId].scene
    ELSE files[sceneId].doc

(***************************************************************************)
(* SceneService.withSceneLock.                                             *)
(***************************************************************************)

\* a variant of LockResolved: the call does not await `current`
LockResolvedNoWait(c) == TRUE

\* `current` of call c (the promise found in the map, or Promise.resolve()) is
\* resolved: the chain promise of call p resolves once p's `current` has and
\* p has called release().
RECURSIVE LockResolved(_)
LockResolved(c) ==
    IF calls[c].pred = 0 THEN TRUE
    ELSE calls[calls[c].pred].released /\ LockResolved(calls[c].pred)

\* `current` is rejected: neither Promise.resolve() nor current.then(() => next)
\* of a `next` that is only ever resolved can reject.
LockRejected(c) == FALSE

\* a variant of ReleasesLock: release() is called after fn returned, not in a
\* finally block
ReleasesLockOnSuccess(failed) == ~failed

\* the finally block calls release() whether fn returned or threw
ReleasesLock(failed) == TRUE

\* a variant of BindsOnReturn: openScene binds nothing
BindsNever(kind) == FALSE

\* openScene, once store.load has returned, binds the session (the call's
\* batch slot holds its sessionId) to the scene
BindsOnReturn(kind) == kind = "open"

\* the finally block of withSceneLock, and the end of an unlocked call;
\* for openScene, sessionActiveScene.set after a load that returned
Return(c, result, scene, report) ==
    LET call == calls[c]
        locked == call.kind \in LockedKinds
        key == LockKey(call.sceneId)
    IN  /\ calls' = [calls EXCEPT ![c] =
               [call EXCEPT !.pc = "done", !.result = result, !.scene = scene,
                            !.report = report,
                            !.released = locked /\ ReleasesLock(result # "ok"),
                            !.statExists = FALSE, !.statMtimeMs = 0, !.raw = NoFile,
                            !.beforeFile = NoFile, !.beforeServed = NoDoc]]
        /\ sceneLocks' =
               IF locked /\ sceneLocks[call.svc][key] = NextPromise(c)
               THEN [sceneLocks EXCEPT ![call.svc][key] = NoPromise]
               ELSE sceneLocks
        /\ sessionActiveScene' =
               IF BindsOnReturn(call.kind) /\ result = "ok"
               THEN [sessionActiveScene EXCEPT ![call.svc][call.batch] = call.sceneId]
               ELSE sessionActiveScene

\* the same for a call that returns its document or throws: a return value
\* computed before the save is returned after it, a throw returns none
Finish(c, result, scene) ==
    Return(c, result, scene, IF result = "ok" THEN calls[c].report ELSE NoReport)

\* a call arrives: the synchronous prefix of withSceneLock for the locked kinds
Issue(kind, svc, sceneId, batch, firstPc) ==
    /\ LET c == Len(calls) + 1
           locked == kind \in LockedKinds
           key == LockKey(sceneId)
           current == sceneLocks[svc][key]
       IN  /\ calls' = Append(calls,
                 NewCall(kind, svc, sceneId, batch,
                         IF locked THEN "waitLock" ELSE firstPc,
                         IF locked THEN current.call ELSE 0,
                         \E p \in Issued : calls[p].sceneId = sceneId /\ calls[p].pc # "done"))
           /\ sceneLocks' = IF locked
                            THEN [sceneLocks EXCEPT ![svc][key] = ChainPromise(c)]
                            ELSE sceneLocks
    /\ tmpFiles' = Append(tmpFiles, NoFile)
    /\ UNCHANGED <<files, cache, clock, history>>
    /\ UnchangedSessionsAndBrowser

IssuePatch(svc, sceneId, batch) == Issue("patch", svc, sceneId, batch, "loadStat")
IssueNormalize(svc, sceneId) == Issue("normalize", svc, sceneId, "none", "loadStat")
IssueSave(svc, sceneId) == Issue("save", svc, sceneId, "none", "loadStat")
IssueGet(svc, sceneId) == Issue("get", svc, sceneId, "none", "loadStat")
IssueCreate(svc, sceneId) == Issue("create", svc, sceneId, "none", "existsStat")
IssueCreateWith(svc, sceneId, input) == Issue("create", svc, sceneId, input, "existsStat")
IssueFit(svc, sceneId) == Issue("fit", svc, sceneId, "none", "loadStat")
IssueValidate(svc, sceneId) == Issue("validate", svc, sceneId, "none", "loadStat")
IssueAttach(svc, sceneId, input) == Issue("attach", svc, sceneId, input, "loadStat")
IssueDetach(svc, sceneId, fileId) == Issue("detach", svc, sceneId, fileId, "loadStat")

\* `await current` returns and fn starts: store.load issues its stat
Acquire(c) ==
    /\ calls[c].pc = "waitLock"
    /\ LockResolved(c)
    /\ IF LockRejected(c)
       THEN Finish(c, "REJECTED", NoDoc)
       ELSE /\ calls' = [calls EXCEPT ![c].pc = "loadStat", ![c].ranBody = TRUE,
                                      ![c].beforeFile = files[calls[c].sceneId],
                                      ![c].beforeServed = Served(calls[c].svc, calls[c].sceneId)]
            /\ UNCHANGED <<sceneLocks, sessionActiveScene>>
    /\ UNCHANGED <<files, tmpFiles, cache, clock, history>>
    /\ UnchangedBrowser

(***************************************************************************)
(* SceneStore.load and the body of each call.                              *)
(***************************************************************************)

\* the call goes on to store.save(scene); the locals of load are dead
StartSaveWith(c, scene, report) ==
    /\ calls' = [calls EXCEPT ![c].pc = "saveStart", ![c].scene = scene,
                              ![c].report = report,
                              ![c].statExists = FALSE, ![c].statMtimeMs = 0,
                              ![c].raw = NoFile]
    /\ UNCHANGED <<sceneLocks, sessionActiveScene>>

\* the same for a call whose return value is the saved document
StartSave(c, scene) == StartSaveWith(c, scene, NoReport)

(***************************************************************************)
(* The inputs of attachFile and what it computes from them.                *)
(***************************************************************************)

\* the inputs attachFile is called with: the bytes "A" without and with a
\* file id, and the six bytes that spell data:1.  (All are
\* within MAX_FILE_BYTES; fileId "" stands for none given.)
AttachInput(input) ==
    CASE input = "A" -> [fileId |-> "", mimeType |-> "image/png", base64 |-> "QQ=="]
      [] input = "AasF9" -> [fileId |-> "f9", mimeType |-> "image/png", base64 |-> "QQ=="]
      [] input = "text" -> [fileId |-> "", mimeType |-> "image/png",
                            base64 |-> "ZGF0YTox"]

\* Buffer.from(base64, "base64"): the bytes the base64 text encodes
Base64Decode(base64) ==
    CASE base64 = "QQ==" -> <<"A">>
      [] base64 = "ZGF0YTox" -> <<"d", "a", "t", "a", ":", "1">>

\* the template string `data:${mimeType};base64,${base64}`
DataURL(mimeType, base64) ==
    CASE base64 = "QQ==" -> "data:image/png;base64,QQ=="
      [] base64 = "ZGF0YTox" -> "data:image/png;base64,ZGF0YTox"

\* createHash("sha256").update(bytes).digest("hex"): a digest of the bytes,
\* modelled as the bytes themselves (an injective digest)
Sha256(bytes) == bytes

\* the digest the loop of attachFile computes for an attached file: of the
\* text String(existing.dataURL ?? "")
ExistingHash(existing) == Sha256(Utf8(DataURLOf(existing)))

\* the ids uuidv4() draws from
FileUuids == {"u1", "u2", "u3", "u4", "u5", "u6"}

\* uuidv4(): an id no file of the scene has
uuidv4(sceneFiles) == CHOOSE id \in FileUuids : id \notin DOMAIN sceneFiles

\* attachFile after its load.  (created and lastRetrieved, both Date.now(),
\* are left out of the file record.  The loop returns the first match in the
\* order of Object.entries; the files of the model give at most one.)
AttachOutcome(input, scene) ==
    LET buffer == Base64Decode(input.base64)
        hash == Sha256(buffer)
        matches == {existingId \in DOMAIN scene.files :
                        ExistingHash(scene.files[existingId]) = hash}
        fileId == IF input.fileId # "" THEN input.fileId ELSE uuidv4(scene.files)
        nextFile == [id |-> fileId, mimeType |-> input.mimeType,
                     dataURL |-> DataURL(input.mimeType, input.base64),
                     version |-> 1]
    IN  IF matches # {}
        THEN [save |-> FALSE, result |-> "ok", scene |-> scene,
              report |-> [kind |-> "attach", fileId |-> CHOOSE id \in matches : TRUE,
                          deduplicated |-> TRUE, sizeBytes |-> Len(buffer)]]
        ELSE [save |-> TRUE, result |-> "pending",
              scene |-> normalizeScene([scene EXCEPT !.files =
                                           (fileId :> nextFile) @@ scene.files]),
              report |-> [kind |-> "attach", fileId |-> fileId,
                          deduplicated |-> FALSE, sizeBytes |-> Len(buffer)]]

\* a variant of IsAttached: every id counts as attached
IsAttachedAlways(sceneFiles, fileId) == TRUE

\* scene.files[fileId] is truthy: the scene holds a file under the id
IsAttached(sceneFiles, fileId) == fileId \in DOMAIN sceneFiles

\* detachFile after its load
DetachOutcome(fileId, scene) ==
    IF ~IsAttached(scene.files, fileId)
    THEN [save |-> FALSE, result |-> "ok", scene |-> scene,
          report |-> [kind |-> "detach", removed |-> FALSE]]
    ELSE [save |-> TRUE, result |-> "pending",
          scene |-> normalizeScene([scene EXCEPT !.files =
                        [id \in DOMAIN scene.files \ {fileId} |-> scene.files[id]]]),
          report |-> [kind |-> "detach", removed |-> TRUE]]

\* what fn does with the scene load returned, up to its next await: it
\* returns, throws, or goes on to store.save
BodyOutcome(call, scene) ==
    CASE call.kind = "get" ->
            [save |-> FALSE, result |-> "ok", scene |-> scene, report |-> NoReport]
      [] call.kind = "open" ->
            [save |-> FALSE, result |-> "ok", scene |-> scene, report |-> NoReport]
      [] call.kind = "save" ->
            [save |-> TRUE, result |-> "pending", scene |-> scene, report |-> NoReport]
      [] call.kind = "normalize" ->
            [save |-> TRUE, result |-> "pending", scene |-> normalizeScene(scene),
             report |-> NoReport]
      [] call.kind = "fit" ->
            [save |-> TRUE, result |-> "pending", scene |-> fitToContent(scene),
             report |-> NoReport]
      [] call.kind = "patch" ->
            LET patched == applyPatch(scene, BatchOps(call.batch))
            IN  IF patched.ok
                THEN [save |-> TRUE, result |-> "pending", scene |-> patched.scene,
                      report |-> NoReport]
                ELSE [save |-> FALSE, result |-> "NOT_FOUND", scene |-> NoDoc,
                      report |-> NoReport]
      [] call.kind = "validate" ->
            [save |-> FALSE, result |-> "ok", scene |-> scene,
             report |-> validateScene(scene)]
      [] call.kind = "attach" -> AttachOutcome(AttachInput(call.batch), scene)
      [] call.kind = "detach" -> DetachOutcome(call.batch, scene)

\* SceneService.exportScene after its load: browserEngine.exportScene(scene,
\* options) hands its function to runLimited
StartExport(c, scene) ==
    /\ calls' = [calls EXCEPT ![c].pc = "runLimited", ![c].scene = scene,
                              ![c].statExists = FALSE, ![c].statMtimeMs = 0,
                              ![c].raw = NoFile]
    /\ UNCHANGED <<sceneLocks, sessionActiveScene>>

\* resolveSceneId after getActiveScene returned the active scene: the tool
\* goes on to sceneService.getScene(active.metadata.sceneId)
Resolved(c, scene) ==
    /\ calls' = [calls EXCEPT ![c].kind = "get", ![c].pc = "loadStat",
                              ![c].sceneId = scene.sceneId,
                              ![c].statExists = FALSE, ![c].statMtimeMs = 0,
                              ![c].raw = NoFile]
    /\ UNCHANGED <<sceneLocks, sessionActiveScene>>

Body(c, scene) ==
    IF calls[c].kind = "export" THEN StartExport(c, scene)
    ELSE IF calls[c].kind = "resolve" THEN Resolved(c, scene)
    ELSE LET outcome == BodyOutcome(calls[c], scene)
         IN  IF outcome.save
             THEN StartSaveWith(c, outcome.scene, outcome.report)
             ELSE Return(c, outcome.result, outcome.scene, outcome.report)

\* stat(fullPath) of load takes effect
LoadStat(c) ==
    /\ calls[c].pc = "loadStat"
    /\ calls' = [calls EXCEPT ![c].pc = "loadCheck",
                              ![c].statExists = files[calls[c].sceneId].exists,
                              ![c].statMtimeMs = files[calls[c].sceneId].mtimeMs]
    /\ UNCHANGED <<files, tmpFiles, cache, sceneLocks, clock, history>>
    /\ UnchangedSessionsAndBrowser

\* load after its stat: NOT_FOUND, a cache hit, or readFile is issued
LoadCheck(c) ==
    LET call == calls[c]
        cached == cache[call.svc][call.sceneId]
    IN  /\ call.pc = "loadCheck"
        /\ IF ~call.statExists
           THEN Finish(c, "NOT_FOUND", NoDoc)
           ELSE IF cached.present /\ cached.mtimeMs = call.statMtimeMs
           THEN Body(c, cached.scene)
           ELSE /\ calls' = [calls EXCEPT ![c].pc = "loadRead"]
                /\ UNCHANGED <<sceneLocks, sessionActiveScene>>
        /\ UNCHANGED <<files, tmpFiles, cache, clock, history>>
        /\ UnchangedBrowser

\* readFile(fullPath) takes effect
LoadRead(c) ==
    /\ calls[c].pc = "loadRead"
    /\ calls' = [calls EXCEPT ![c].pc = "loadParse", ![c].raw = files[calls[c].sceneId]]
    /\ UNCHANGED <<files, tmpFiles, cache, sceneLocks, clock, history>>
    /\ UnchangedSessionsAndBrowser

\* load after readFile: JSON.parse, cache.set, return
LoadParse(c) ==
    LET call == calls[c]
    IN  /\ call.pc = "loadParse"
        /\ IF call.raw.partial \/ ~call.raw.exists
           THEN /\ Finish(c, "PARSE_ERROR", NoDoc)
                /\ UNCHANGED cache
           ELSE /\ cache' = [cache EXCEPT ![call.svc][call.sceneId] =
                                 Cached(call.statMtimeMs, call.raw.doc)]
                /\ Body(c, call.raw.doc)
        /\ UNCHANGED <<files, tmpFiles, clock, history>>
        /\ UnchangedBrowser

(***************************************************************************)
(* SceneService.createScene up to its save.                                *)
(***************************************************************************)

\* stat(fullPath) of store.exists takes effect
ExistsStat(c) ==
    /\ calls[c].pc = "existsStat"
    /\ calls' = [calls EXCEPT ![c].pc = "existsCheck",
                              ![c].statExists = files[calls[c].sceneId].exists]
    /\ UNCHANGED <<files, tmpFiles, cache, sceneLocks, clock, history>>
    /\ UnchangedSessionsAndBrowser

\* createScene after exists: CONFLICT, or the new scene is built and saved
ExistsCheck(c) ==
    LET call == calls[c]
    IN  /\ call.pc = "existsCheck"
        /\ IF call.statExists
           THEN Finish(c, "CONFLICT", NoDoc)
           ELSE StartSave(c, normalizeScene(NewScene(call.sceneId, "created",
                                                    CreateInput(call.batch))))
        /\ UNCHANGED <<files, tmpFiles, cache, clock, history>>
        /\ UnchangedBrowser

(***************************************************************************)
(* SceneStore.save.                                                        *)
(***************************************************************************)

\* a variant of WritesToTmp: writeFile writes the scene's own path
WritesToScenePath == FALSE

\* the path writeFile writes: the temporary path, not the scene's own
WritesToTmp == TRUE

\* writeFile starts: the written path holds a partial document
SaveWriteBegin(c) ==
    /\ calls[c].pc = "saveStart"
    /\ calls' = [calls EXCEPT ![c].pc = "saveWriting"]
    /\ IF WritesToTmp
       THEN /\ tmpFiles' = [tmpFiles EXCEPT ![c] = PartialFile]
            /\ UNCHANGED files
       ELSE /\ files' = [files EXCEPT ![calls[c].sceneId] = PartialFile]
            /\ UNCHANGED tmpFiles
    /\ UNCHANGED <<cache, sceneLocks, clock, history>>
    /\ UnchangedSessionsAndBrowser

\* writeFile completes: the file system stamps the file with the current time,
\* which may or may not have advanced since the previous write
SaveWriteEnd(c) ==
    /\ calls[c].pc = "saveWriting"
    /\ \E now \in {clock, clock + 1} :
        /\ clock' = now
        /\ IF WritesToTmp
           THEN /\ tmpFiles' = [tmpFiles EXCEPT ![c] = FullFile(calls[c].scene, now)]
                /\ UNCHANGED <<files, history>>
           ELSE /\ files' = [files EXCEPT ![calls[c].sceneId] = FullFile(calls[c].scene, now)]
                /\ history' = [history EXCEPT ![calls[c].sceneId] = @ \cup {calls[c].scene}]
                /\ UNCHANGED tmpFiles
    /\ calls' = [calls EXCEPT ![c].pc = "saveRename"]
    /\ UNCHANGED <<cache, sceneLocks>>
    /\ UnchangedSessionsAndBrowser

\* writeFile fails: save throws before the rename
SaveWriteFail(c) ==
    /\ calls[c].pc = "saveWriting"
    /\ Finish(c, "IO_ERROR", NoDoc)
    /\ UNCHANGED <<files, tmpFiles, cache, clock, history>>
    /\ UnchangedBrowser

\* rename(tmpPath, fullPath) takes effect
SaveRename(c) ==
    /\ calls[c].pc = "saveRename"
    /\ calls' = [calls EXCEPT ![c].pc = "saveStat"]
    /\ IF WritesToTmp
       THEN /\ files' = [files EXCEPT ![calls[c].sceneId] = tmpFiles[c]]
            /\ tmpFiles' = [tmpFiles EXCEPT ![c] = NoFile]
            /\ history' = [history EXCEPT ![calls[c].sceneId] = @ \cup {tmpFiles[c].doc}]
       ELSE UNCHANGED <<files, tmpFiles, history>>
    /\ UNCHANGED <<cache, sceneLocks, clock>>
    /\ UnchangedSessionsAndBrowser

\* stat(fullPath) of save takes effect
SaveStat(c) ==
    /\ calls[c].pc = "saveStat"
    /\ calls' = [calls EXCEPT ![c].pc = "saveCache",
                              ![c].statMtimeMs = files[calls[c].sceneId].mtimeMs]
    /\ UNCHANGED <<files, tmpFiles, cache, sceneLocks, clock, history>>
    /\ UnchangedSessionsAndBrowser

\* save after its stat: cache.set, and the call returns
SaveCache(c) ==
    LET call == calls[c]
    IN  /\ call.pc = "saveCache"
        /\ cache' = [cache EXCEPT ![call.svc][call.sceneId] =
                         Cached(call.statMtimeMs, call.scene)]
        /\ Finish(c, "ok", call.scene)
        /\ UNCHANGED <<files, tmpFiles, clock, history>>
        /\ UnchangedBrowser

(***************************************************************************)
(* Specifications.                                                         *)
(***************************************************************************)
InitFiles(existing) ==
    [id \in SceneIds |-> IF id \in existing THEN FullFile(SeedDoc(id), 0) ELSE NoFile]

InitWith(existing) ==
    /\ calls = <<>>
    /\ files = InitFiles(existing)
    /\ tmpFiles = <<>>
    /\ cache = [svc \in AllServices |-> [id \in SceneIds |-> NoCached]]
    /\ sceneLocks = [svc \in AllServices |-> [id \in SceneIds |-> NoPromise]]
    /\ clock = 0
    /\ history = [id \in SceneIds |-> IF id \in existing THEN {SeedDoc(id)} ELSE {}]
    /\ sessionActiveScene = [svc \in AllServices |-> [s \in SessionIds |-> NoActiveScene]]
    /\ browserEngine = NewBrowserEngine
    /\ playwright = <<>>

\* one step of an issued call
Step(c) ==
    \/ Acquire(c)
    \/ LoadStat(c)
    \/ LoadCheck(c)
    \/ LoadRead(c)
    \/ LoadParse(c)
    \/ ExistsStat(c)
    \/ ExistsCheck(c)
    \/ SaveWriteBegin(c)
    \/ SaveWriteEnd(c)
    \/ SaveWriteFail(c)
    \/ SaveRename(c)
    \/ SaveStat(c)
    \/ SaveCache(c)

\* One service (the stdio server): every kind of call.  Scene "a" is persisted,
\* scene "b" is not until a createScene call persists it.
Init == InitWith({"a"})

Next ==
    \/ \E sceneId \in SceneIds, batch \in {"add", "renameUpdate"} :
          Len(calls) < MaxCalls /\ IssuePatch(1, sceneId, batch)
    \/ \E sceneId \in SceneIds : Len(calls) < MaxCalls /\ IssueSave(1, sceneId)
    \/ \E sceneId \in SceneIds : Len(calls) < MaxCalls /\ IssueGet(1, sceneId)
    \/ \E sceneId \in SceneIds : Len(calls) < MaxCalls /\ IssueCreate(1, sceneId)
    \/ \E c \in Issued : Acquire(c)
    \/ \E c \in Issued : LoadStat(c)
    \/ \E c \in Issued : LoadCheck(c)
    \/ \E c \in Issued : LoadRead(c)
    \/ \E c \in Issued : LoadParse(c)
    \/ \E c \in Issued : ExistsStat(c)
    \/ \E c \in Issued : ExistsCheck(c)
    \/ \E c \in Issued : SaveWriteBegin(c)
    \/ \E c \in Issued : SaveWriteEnd(c)
    \/ \E c \in Issued : SaveWriteFail(c)
    \/ \E c \in Issued : SaveRename(c)
    \/ \E c \in Issued : SaveStat(c)
    \/ \E c \in Issued : SaveCache(c)

Spec == Init /\ [][Next]_vars

\* One service: only the calls that go through withSceneLock.
NextLock ==
    \/ \E sceneId \in SceneIds, batch \in BatchNames :
          Len(calls) < MaxCalls /\ IssuePatch(1, sceneId, batch)
    \/ \E sceneId \in SceneIds : Len(calls) < MaxCalls /\ IssueNormalize(1, sceneId)
    \/ \E c \in Issued : Acquire(c)
    \/ \E c \in Issued : LoadStat(c)
    \/ \E c \in Issued : LoadCheck(c)
    \/ \E c \in Issued : LoadRead(c)
    \/ \E c \in Issued : LoadParse(c)
    \/ \E c \in Issued : SaveWriteBegin(c)
    \/ \E c \in Issued : SaveWriteEnd(c)
    \/ \E c \in Issued : SaveWriteFail(c)
    \/ \E c \in Issued : SaveRename(c)
    \/ \E c \in Issued : SaveStat(c)
    \/ \E c \in Issued : SaveCache(c)

InitLock == \E existing \in {{"a"}, {"a", "b"}} : InitWith(existing)

SpecLock == InitLock /\ [][NextLock]_vars

\* The event loop runs every continuation that is ready, and every file-system
\* operation a call awaits returns (or fails).
SpecLockFair == SpecLock /\ \A c \in 1..MaxCalls : WF_vars(c \in Issued /\ Step(c))

(***************************************************************************)
(* Errors (utils/errors.ts) as the tool boundary reports them.             *)
(***************************************************************************)
AppError(code) == [isAppError |-> TRUE, code |-> code]

\* new Error(message), or what Playwright throws
PlainError(message) == [isAppError |-> FALSE, message |-> message]

\* asAppError: an AppError as it is, anything else as INTERNAL
asAppError(error) == IF error.isAppError THEN error ELSE AppError("INTERNAL")

(***************************************************************************)
(* BrowserEngine (browserEngine.ts) and the Playwright objects it drives.  *)
(* playwright is the sequence of the objects started so far: a browser, a  *)
(* context of a browser or a page of a context, open until it or one above *)
(* it is closed.  An object's identity is its index.                       *)
(***************************************************************************)
Started(kind, parent) == [kind |-> kind, parent |-> parent, open |-> TRUE]

IsOpen(object) == object # Null /\ playwright[object].open

\* object is `top` or was started below it
RECURSIVE IsBelow(_, _)
IsBelow(object, top) ==
    IF object = top THEN TRUE
    ELSE IF playwright[object].parent = Null THEN FALSE
    ELSE IsBelow(playwright[object].parent, top)

\* browser.close() / context.close(): the object and everything below it
Closed(top) ==
    [object \in DOMAIN playwright |->
        IF IsBelow(object, top) THEN [playwright[object] EXCEPT !.open = FALSE]
        ELSE playwright[object]]

\* createServer.ts: browserMaxConcurrency ?? 2
MaxConcurrency == 2

\* the calls whose function pLimit is running
Running == {c \in Issued : calls[c].kind = "export" /\
                           calls[c].pc \in {"launch", "newContext", "newPage", "goto",
                                            "evaluate"}}

\* a call of the BrowserEngine ends
EngineReturn(c, result) ==
    /\ calls' = [calls EXCEPT ![c].pc = "done", ![c].result = result, ![c].target = Null]
    /\ UNCHANGED <<files, tmpFiles, cache, sceneLocks, clock, history, sessionActiveScene>>

\* what the caller sees of an error that left exportScene
Thrown(error) == asAppError(error)

\* ensurePage from its test of this.context on, with `engine` the fields as
\* they are now; when it returns this.page, exportScene calls
\* bumpRecycleTimer (the timer is named after the call that set it) and
\* page.evaluate
EnsureFromContext(c, engine) ==
    /\ calls' = [calls EXCEPT
           ![c].pc = IF engine.context = Null THEN "newContext"
                     ELSE IF ~IsOpen(engine.page) THEN "newPage"
                     ELSE "evaluate",
           ![c].target = IF engine.context = Null THEN engine.browser
                         ELSE IF ~IsOpen(engine.page) THEN engine.context
                         ELSE engine.page]
    /\ browserEngine' = IF engine.context # Null /\ IsOpen(engine.page)
                        THEN [engine EXCEPT !.recycleTimer = c]
                        ELSE engine
    /\ UNCHANGED <<files, tmpFiles, cache, sceneLocks, clock, history, sessionActiveScene>>

\* ensurePage: if (!this.browser)
NeedsLaunch(c) == browserEngine.browser = Null

\* pLimit starts the function: ensurePage up to its first await
RunLimited(c) ==
    /\ calls[c].pc = "runLimited"
    /\ Cardinality(Running) < MaxConcurrency
    /\ IF NeedsLaunch(c)
       THEN /\ calls' = [calls EXCEPT ![c].pc = "launch"]
            /\ UNCHANGED <<files, tmpFiles, cache, sceneLocks, clock, history,
                           sessionActiveScene, browserEngine>>
       ELSE EnsureFromContext(c, browserEngine)
    /\ UNCHANGED playwright

\* chromium.launch returns a browser, which is assigned to this.browser, or
\* throws
Launch(c) ==
    /\ calls[c].pc = "launch"
    /\ \/ /\ playwright' = Append(playwright, Started("browser", Null))
          /\ EnsureFromContext(c, [browserEngine EXCEPT !.browser = Len(playwright) + 1])
       \/ /\ EngineReturn(c, Thrown(PlainError("launch")).code)
          /\ UNCHANGED <<browserEngine, playwright>>

\* browser.newContext returns a context, assigned to this.context, or throws
\* (it does on a closed browser)
NewContext(c) ==
    /\ calls[c].pc = "newContext"
    /\ \/ /\ IsOpen(calls[c].target)
          /\ playwright' = Append(playwright, Started("context", calls[c].target))
          /\ EnsureFromContext(c, [browserEngine EXCEPT !.context = Len(playwright) + 1])
       \/ /\ EngineReturn(c, Thrown(PlainError("newContext")).code)
          /\ UNCHANGED <<browserEngine, playwright>>

\* context.newPage returns a page, assigned to this.page, or throws; then
\* page.goto is awaited
NewPage(c) ==
    /\ calls[c].pc = "newPage"
    /\ \/ /\ IsOpen(calls[c].target)
          /\ playwright' = Append(playwright, Started("page", calls[c].target))
          /\ browserEngine' = [browserEngine EXCEPT !.page = Len(playwright) + 1]
          /\ calls' = [calls EXCEPT ![c].pc = "goto", ![c].target = Len(playwright) + 1]
          /\ UNCHANGED <<files, tmpFiles, cache, sceneLocks, clock, history,
                         sessionActiveScene>>
       \/ /\ EngineReturn(c, Thrown(PlainError("newPage")).code)
          /\ UNCHANGED <<browserEngine, playwright>>

\* page.goto returns or throws; ensurePage returns this.page as it is now,
\* exportScene calls bumpRecycleTimer and page.evaluate
Goto(c) ==
    /\ calls[c].pc = "goto"
    /\ \/ /\ IsOpen(calls[c].target)
          /\ calls' = [calls EXCEPT ![c].pc = "evaluate",
                                    ![c].target = browserEngine.page]
          /\ browserEngine' = [browserEngine EXCEPT !.recycleTimer = c]
          /\ UNCHANGED <<files, tmpFiles, cache, sceneLocks, clock, history,
                         sessionActiveScene>>
       \/ /\ EngineReturn(c, Thrown(PlainError("goto")).code)
          /\ UNCHANGED browserEngine
    /\ UNCHANGED playwright

\* page.evaluate returns the image or throws (it does on null and on a
\* closed page); the catch block wraps what it throws
Evaluate(c) ==
    /\ calls[c].pc = "evaluate"
    /\ \/ IsOpen(calls[c].target) /\ EngineReturn(c, "ok")
       \/ EngineReturn(c, Thrown(AppError("DEGRADED_MODE")).code)
    /\ UNCHANGED <<browserEngine, playwright>>

\* close() up to its first await, on the timer's firing or at shutdown:
\* the timer is cleared, then context.close() or browser.close() is awaited
Close(origin) ==
    /\ origin = "timer" => browserEngine.recycleTimer # Null
    /\ calls' = Append(calls,
           [NewCall("close", 1, "none", origin,
                    IF browserEngine.context # Null THEN "closeContext"
                    ELSE IF browserEngine.browser # Null THEN "closeBrowser"
                    ELSE "done", 0, FALSE)
            EXCEPT !.target = IF browserEngine.context # Null THEN browserEngine.context
                              ELSE browserEngine.browser,
                   !.result = IF browserEngine.context = Null /\ browserEngine.browser = Null
                              THEN "ok" ELSE "pending"])
    /\ browserEngine' = [browserEngine EXCEPT !.recycleTimer = Null]
    /\ tmpFiles' = Append(tmpFiles, NoFile)
    /\ UNCHANGED <<files, cache, sceneLocks, clock, history, sessionActiveScene, playwright>>

\* context.close() has returned: this.context and this.page are set to null,
\* then browser.close() is awaited if this.browser is set
CloseContext(c) ==
    /\ calls[c].pc = "closeContext"
    /\ playwright' = Closed(calls[c].target)
    /\ browserEngine' = [browserEngine EXCEPT !.context = Null, !.page = Null]
    /\ calls' = [calls EXCEPT
           ![c].pc = IF browserEngine.browser # Null THEN "closeBrowser" ELSE "done",
           ![c].target = browserEngine.browser,
           ![c].result = IF browserEngine.browser # Null THEN "pending" ELSE "ok"]
    /\ UNCHANGED <<files, tmpFiles, cache, sceneLocks, clock, history, sessionActiveScene>>

\* browser.close() has returned: this.browser is set to null
CloseBrowser(c) ==
    /\ calls[c].pc = "closeBrowser"
    /\ playwright' = Closed(calls[c].target)
    /\ browserEngine' = [browserEngine EXCEPT !.browser = Null]
    /\ EngineReturn(c, "ok")

\* SceneService.exportScene(sceneId, options) for an image format
IssueExport(svc, sceneId) == Issue("export", svc, sceneId, "png", "loadStat")

MaxExportCalls == 3

\* exports of scene a by one service, the idle-recycle timer and close()
NextExport ==
    \/ Len(calls) < MaxExportCalls /\ IssueExport(1, "a")
    \/ \E origin \in {"timer", "shutdown"} : Len(calls) < MaxExportCalls /\ Close(origin)
    \/ \E c \in Issued : LoadStat(c)
    \/ \E c \in Issued : LoadCheck(c)
    \/ \E c \in Issued : LoadRead(c)
    \/ \E c \in Issued : LoadParse(c)
    \/ \E c \in Issued : RunLimited(c)
    \/ \E c \in Issued : Launch(c)
    \/ \E c \in Issued : NewContext(c)
    \/ \E c \in Issued : NewPage(c)
    \/ \E c \in Issued : Goto(c)
    \/ \E c \in Issued : Evaluate(c)
    \/ \E c \in Issued : CloseContext(c)
    \/ \E c \in Issued : CloseBrowser(c)

SpecExport == InitWith({"a"}) /\ [][NextExport]_vars

(***************************************************************************)
(* The session calls of SceneService: openScene, closeScene, resetSession. *)
(***************************************************************************)

\* openScene(sceneId, sessionId): store.load, then the binding (in Return)
IssueOpen(svc, sessionId, sceneId) == Issue("open", svc, sceneId, sessionId, "loadStat")

\* a call that runs to its end without an await
Immediate(kind, svc, sceneId, sessionId, result, report) ==
    [NewCall(kind, svc, sceneId, sessionId, "done", 0, FALSE) EXCEPT
        !.result = result, !.report = report]

\* a variant of ClosesBinding: closeScene clears whatever is bound
ClosesAnyBinding(current, sceneId) == TRUE

\* closeScene: if (current === sceneId)
ClosesBinding(current, sceneId) == current = sceneId

\* closeScene(sceneId, sessionId)
CloseScene(svc, sessionId, sceneId) ==
    /\ calls' = Append(calls, Immediate("close", svc, sceneId, sessionId, "ok",
                                        [kind |-> "close", closed |-> TRUE]))
    /\ sessionActiveScene' =
           IF ClosesBinding(sessionActiveScene[svc][sessionId], sceneId)
           THEN [sessionActiveScene EXCEPT ![svc][sessionId] = NoActiveScene]
           ELSE sessionActiveScene
    /\ tmpFiles' = Append(tmpFiles, NoFile)
    /\ UNCHANGED <<files, cache, sceneLocks, clock, history>>
    /\ UnchangedBrowser

\* resetSession(sessionId): Map.delete returns whether the key was there
ResetSession(svc, sessionId) ==
    /\ calls' = Append(calls, Immediate("reset", svc, "none", sessionId, "ok",
                          [kind |-> "reset",
                           clearedActiveScene |->
                               sessionActiveScene[svc][sessionId] # NoActiveScene]))
    /\ sessionActiveScene' = [sessionActiveScene EXCEPT ![svc][sessionId] = NoActiveScene]
    /\ tmpFiles' = Append(tmpFiles, NoFile)
    /\ UNCHANGED <<files, cache, sceneLocks, clock, history>>
    /\ UnchangedBrowser

\* the tool scene.get called by a session, with a sceneId or ("none") without:
\* resolveSceneId, then sceneService.getScene; failure(error) reports what is
\* thrown
ToolGet(svc, sessionId, sceneIdInput) ==
    LET activeId == sessionActiveScene[svc][sessionId]
    IN  IF sceneIdInput # "none"
        THEN Issue("get", svc, sceneIdInput, sessionId, "loadStat")
        ELSE IF activeId # NoActiveScene
        THEN Issue("resolve", svc, activeId, sessionId, "loadStat")
        ELSE /\ calls' = Append(calls,
                    Immediate("get", svc, "none", sessionId,
                              Thrown(PlainError("BAD_REQUEST: sceneId is required")).code,
                              [kind |-> "resolve", active |-> activeId]))
             /\ tmpFiles' = Append(tmpFiles, NoFile)
             /\ UNCHANGED <<files, cache, sceneLocks, clock, history>>
             /\ UnchangedSessionsAndBrowser

MaxSessionCalls == 3

\* two sessions of one service open, close and reset while scenes are read;
\* scene b has no file
NextSession ==
    \/ \E sessionId \in SessionIds, sceneId \in SceneIds :
          Len(calls) < MaxSessionCalls /\ IssueOpen(1, sessionId, sceneId)
    \/ \E sessionId \in SessionIds, sceneId \in SceneIds :
          Len(calls) < MaxSessionCalls /\ CloseScene(1, sessionId, sceneId)
    \/ \E sessionId \in SessionIds :
          Len(calls) < MaxSessionCalls /\ ResetSession(1, sessionId)
    \/ \E sceneId \in SceneIds : Len(calls) < MaxSessionCalls /\ IssueGet(1, sceneId)
    \/ \E c \in Issued : LoadStat(c)
    \/ \E c \in Issued : LoadCheck(c)
    \/ \E c \in Issued : LoadRead(c)
    \/ \E c \in Issued : LoadParse(c)

SpecSession == InitWith({"a"}) /\ [][NextSession]_vars

MaxToolCalls == 3

\* two sessions of one service open scenes, reset, and call scene.get with and
\* without a sceneId
NextTool ==
    \/ \E sessionId \in SessionIds, sceneId \in SceneIds :
          Len(calls) < MaxToolCalls /\ IssueOpen(1, sessionId, sceneId)
    \/ \E sessionId \in SessionIds :
          Len(calls) < MaxToolCalls /\ ResetSession(1, sessionId)
    \/ \E sessionId \in SessionIds, sceneIdInput \in SceneIds \cup {"none"} :
          Len(calls) < MaxToolCalls /\ ToolGet(1, sessionId, sceneIdInput)
    \/ \E c \in Issued : LoadStat(c)
    \/ \E c \in Issued : LoadCheck(c)
    \/ \E c \in Issued : LoadRead(c)
    \/ \E c \in Issued : LoadParse(c)

SpecTool == InitWith({"a"}) /\ [][NextTool]_vars

\* HTTP mode: every MCP session gets its own createExcalidrawMcpServer, hence
\* its own SceneStore and SceneService, over the same storage root.
NextHttp ==
    \/ \E svc \in HttpServices, sceneId \in SceneIds, batch \in {"add", "move"} :
          Len(calls) < MaxCalls /\ IssuePatch(svc, sceneId, batch)
    \/ \E c \in Issued : Acquire(c)
    \/ \E c \in Issued : LoadStat(c)
    \/ \E c \in Issued : LoadCheck(c)
    \/ \E c \in Issued : LoadRead(c)
    \/ \E c \in Issued : LoadParse(c)
    \/ \E c \in Issued : SaveWriteBegin(c)
    \/ \E c \in Issued : SaveWriteEnd(c)
    \/ \E c \in Issued : SaveWriteFail(c)
    \/ \E c \in Issued : SaveRename(c)
    \/ \E c \in Issued : SaveStat(c)
    \/ \E c \in Issued : SaveCache(c)

SpecHttp == InitWith({"a", "b"}) /\ [][NextHttp]_vars

\* One service, each call awaited before the next is issued: sequences of
\* createScene, patchScene, normalizeScene and fitToContent.
MaxSeqCalls == 3

SeqBatches == {"add", "addSameId", "updateId", "softDelete", "setFiles"}

NextSeq ==
    \/ \E batch \in SeqBatches :
          Len(calls) < MaxSeqCalls /\ (\A c \in Issued : calls[c].pc = "done")
              /\ IssuePatch(1, "a", batch)
    \/ \E input \in {"none", "twins"} :
          Len(calls) < MaxSeqCalls /\ (\A c \in Issued : calls[c].pc = "done")
              /\ IssueCreateWith(1, "b", input)
    \/ Len(calls) < MaxSeqCalls /\ (\A c \in Issued : calls[c].pc = "done")
          /\ IssueNormalize(1, "a")
    \/ \E sceneId \in SceneIds :
          Len(calls) < MaxSeqCalls /\ (\A c \in Issued : calls[c].pc = "done")
              /\ IssueFit(1, sceneId)
    \/ \E c \in Issued : Acquire(c)
    \/ \E c \in Issued : LoadStat(c)
    \/ \E c \in Issued : LoadCheck(c)
    \/ \E c \in Issued : LoadRead(c)
    \/ \E c \in Issued : LoadParse(c)
    \/ \E c \in Issued : ExistsStat(c)
    \/ \E c \in Issued : ExistsCheck(c)
    \/ \E c \in Issued : SaveWriteBegin(c)
    \/ \E c \in Issued : SaveWriteEnd(c)
    \/ \E c \in Issued : SaveWriteFail(c)
    \/ \E c \in Issued : SaveRename(c)
    \/ \E c \in Issued : SaveStat(c)
    \/ \E c \in Issued : SaveCache(c)

SpecSeq == InitWith({"a"}) /\ [][NextSeq]_vars

\* One service: attachFile, detachFile and a patchScene that replaces the
\* files of scene "a", issued in any order and with any overlap.
MaxFileCalls == 3

AttachInputs == {"A", "AasF9", "text"}

DetachIds == {"f1", "f9", "u1"}

NextFiles ==
    \/ \E input \in AttachInputs : Len(calls) < MaxFileCalls /\ IssueAttach(1, "a", input)
    \/ \E fileId \in DetachIds : Len(calls) < MaxFileCalls /\ IssueDetach(1, "a", fileId)
    \/ Len(calls) < MaxFileCalls /\ IssuePatch(1, "a", "setFiles")
    \/ \E c \in Issued : Acquire(c)
    \/ \E c \in Issued : LoadStat(c)
    \/ \E c \in Issued : LoadCheck(c)
    \/ \E c \in Issued : LoadRead(c)
    \/ \E c \in Issued : LoadParse(c)
    \/ \E c \in Issued : SaveWriteBegin(c)
    \/ \E c \in Issued : SaveWriteEnd(c)
    \/ \E c \in Issued : SaveWriteFail(c)
    \/ \E c \in Issued : SaveRename(c)
    \/ \E c \in Issued : SaveStat(c)
    \/ \E c \in Issued : SaveCache(c)

SpecFiles == InitWith({"a"}) /\ [][NextFiles]_vars

\* One service, each call awaited before the next is issued: patchScene calls
\* that make scene "a" valid or invalid in each of the ways validateScene
\* looks for, and validateScene.
MaxValidateCalls == 3

ValidateBatches ==
    {"move", "addSameId", "addNoId", "addLooseArrow", "addLongLabel", "setFiles",
     "setBadFile", "setNoUrlFile", "clearFiles"}

NextValidate ==
    \/ \E batch \in ValidateBatches :
          Len(calls) < MaxValidateCalls /\ (\A c \in Issued : calls[c].pc = "done")
              /\ IssuePatch(1, "a", batch)
    \/ Len(calls) < MaxValidateCalls /\ (\A c \in Issued : calls[c].pc = "done")
          /\ IssueValidate(1, "a")
    \/ \E c \in Issued : Acquire(c)
    \/ \E c \in Issued : LoadStat(c)
    \/ \E c \in Issued : LoadCheck(c)
    \/ \E c \in Issued : LoadRead(c)
    \/ \E c \in Issued : LoadParse(c)
    \/ \E c \in Issued : SaveWriteBegin(c)
    \/ \E c \in Issued : SaveWriteEnd(c)
    \/ \E c \in Issued : SaveWriteFail(c)
    \/ \E c \in Issued : SaveRename(c)
    \/ \E c \in Issued : SaveStat(c)
    \/ \E c \in Issued : SaveCache(c)

SpecValidate == InitWith({"a"}) /\ [][NextValidate]_vars

\* One service, each call awaited before the next is issued: patchScene calls
\* that add a diagram (two shapes and a connector) to scene "a".
MaxDiagramCalls == 2

DiagramBatches == {"addDiagram", "addHinted"}

NextDiagram ==
    \/ \E batch \in DiagramBatches :
          Len(calls) < MaxDiagramCalls /\ (\A c \in Issued : calls[c].pc = "done")
              /\ IssuePatch(1, "a", batch)
    \/ \E c \in Issued : Acquire(c)
    \/ \E c \in Issued : LoadStat(c)
    \/ \E c \in Issued : LoadCheck(c)
    \/ \E c \in Issued : LoadRead(c)
    \/ \E c \in Issued : LoadParse(c)
    \/ \E c \in Issued : SaveWriteBegin(c)
    \/ \E c \in Issued : SaveWriteEnd(c)
    \/ \E c \in Issued : SaveWriteFail(c)
    \/ \E c \in Issued : SaveRename(c)
    \/ \E c \in Issued : SaveStat(c)
    \/ \E c \in Issued : SaveCache(c)

SpecDiagram == InitWith({"a"}) /\ [][NextDiagram]_vars

(***************************************************************************)
(* Direct calls of the engine's functions: a call is recorded with its      *)
(* argument, its option (the batch, the fix flag, the list options) and     *)
(* what it returned.                                                       *)
(***************************************************************************)
EngineCall(kind, arg, option, out) ==
    [kind |-> kind, pc |-> "done", arg |-> arg, option |-> option, out |-> out]

\* applyPatch(doc, operations); a throw is recorded as ok = FALSE
CallApplyPatch(doc, batch) ==
    /\ calls' = Append(calls, EngineCall("applyPatch", doc, batch,
                                         applyPatch(doc, BatchOps(batch))))
    /\ UNCHANGED <<files, tmpFiles, cache, sceneLocks, clock, history>>
    /\ UnchangedSessionsAndBrowser

\* listElements on a loaded document
CallListElements(doc, options) ==
    /\ calls' = Append(calls, EngineCall("listElements", doc, options,
                                         listElements(doc, options)))
    /\ UNCHANGED <<files, tmpFiles, cache, sceneLocks, clock, history>>
    /\ UnchangedSessionsAndBrowser

\* applyDiagramQuality(doc, fix)
CallQuality(doc, fix) ==
    /\ calls' = Append(calls, EngineCall("quality", doc, fix,
                                         applyDiagramQuality(doc, fix)))
    /\ UNCHANGED <<files, tmpFiles, cache, sceneLocks, clock, history>>
    /\ UnchangedSessionsAndBrowser

\* the documents returned so far
Returned(kind) ==
    {calls[c].out.scene : c \in {k \in Issued : calls[k].kind = kind}}

\* Patch batches and listings applied to the seed document and to every
\* document an earlier applyPatch returned.
MaxEngineCalls == 3

EngineBatches ==
    {"add", "renameUpdate", "move", "delete", "addThenUpdate", "hardDelete",
     "hardDeleteThenUpdate", "softDelete", "deleteUnknown", "updateUnknown",
     "addSameId", "updateId", "setFiles"}

ListOptions ==
    {[includeDeleted |-> FALSE, type |-> "", limit |-> 0],
     [includeDeleted |-> TRUE, type |-> "", limit |-> 0]}

NextEngine ==
    \/ \E doc \in {SeedDoc("a")} \cup Returned("applyPatch"), batch \in EngineBatches :
          Len(calls) < MaxEngineCalls /\ CallApplyPatch(doc, batch)
    \/ \E doc \in {SeedDoc("a")} \cup Returned("applyPatch"), options \in ListOptions :
          Len(calls) < MaxEngineCalls /\ CallListElements(doc, options)

SpecEngine == InitWith({"a"}) /\ [][NextEngine]_vars

\* Deletions, updates and listings, in longer sequences.
MaxDeleteCalls == 5

DeleteBatches == {"softDelete", "hardDelete", "move"}

NextDelete ==
    \/ \E doc \in {SeedDoc("a")} \cup Returned("applyPatch"), batch \in DeleteBatches :
          Len(calls) < MaxDeleteCalls /\ CallApplyPatch(doc, batch)
    \/ \E doc \in {SeedDoc("a")} \cup Returned("applyPatch"), options \in ListOptions :
          Len(calls) < MaxDeleteCalls /\ CallListElements(doc, options)

SpecDelete == InitWith({"a"}) /\ [][NextDelete]_vars

\* Patches on a container and the text bound to it.
MaxLabelCalls == 4

LabelBatches == {"addLabel", "softDeleteContainer", "hardDeleteContainer", "move"}

NextLabel ==
    \E doc \in {SeedDoc("a")} \cup Returned("applyPatch"), batch \in LabelBatches :
        Len(calls) < MaxLabelCalls /\ CallApplyPatch(doc, batch)

SpecLabel == InitWith({"a"}) /\ [][NextLabel]_vars

\* Diagrams: two shapes r1 and r2, a soft-deleted shape dl that covers r1, and
\* a connector a1 from a start point to an end point.
Shape(id, x, y, width, height) ==
    [id |-> id, type |-> "rectangle", x |-> x, y |-> y, width |-> width,
     height |-> height, angle |-> 0, isDeleted |-> FALSE, version |-> 1]

\* r1 and r2 apart; r1 and r2 overlapping, in either document order
Layouts == {"apart", "overlap", "overlapSwapped"}

LayoutShapes(layout) ==
    CASE layout = "apart" ->
            <<[Shape("dl", 0, 0, 180, 80) EXCEPT !.isDeleted = TRUE],
              Shape("r1", 0, 0, 180, 80), Shape("r2", 340, 0, 180, 80)>>
      [] layout = "overlap" ->
            <<Shape("r1", 0, 0, 100, 100), Shape("r2", 20, 0, 100, 100)>>
      [] layout = "overlapSwapped" ->
            <<Shape("r2", 20, 0, 100, 100), Shape("r1", 0, 0, 100, 100)>>

\* start points: inside r1 (apart); within and beyond the tolerance of r1
\* (apart); at equal distance from both centres (overlap); nearer to r2's
\* (overlap); inside nothing
StartPoints == {<<80, 40>>, <<192, 40>>, <<193, 40>>, <<60, 50>>, <<65, 50>>, <<600, 300>>}

EndPoints == {<<400, 40>>, <<600, 300>>}

\* the element a binding or a hint names: none, a shape, no element, the
\* soft-deleted shape
BindingTargets == {"", "r2", "gone", "dl"}
HintTargets == {"", "r2", "gone"}

Connector(start, end, bindingId, hintId) ==
    LET base == [id |-> "a1", type |-> "arrow", x |-> 0, y |-> 0, width |-> 0,
                 height |-> 0, angle |-> 0, isDeleted |-> FALSE, version |-> 1,
                 points |-> <<start, end>>]
        bound == IF bindingId = "" THEN base
                 ELSE ("startBinding" :> [elementId |-> bindingId, focus |-> 0,
                                          gap |-> 0]) @@ base
    IN  IF hintId = "" THEN bound
        ELSE ("customData" :> [fromId |-> hintId]) @@ bound

DiagramDoc(layout, connector) ==
    normalizeScene(NewScene("a", "diagram", Append(LayoutShapes(layout), connector)))

QualityDocs ==
    {DiagramDoc(layout, Connector(start, end, bindingId, hintId)) :
        layout \in Layouts, start \in StartPoints, end \in EndPoints,
        bindingId \in BindingTargets, hintId \in HintTargets}

\* The quality pass applied to a diagram, then to what it returned.
MaxQualityCalls == 2

NextQuality ==
    \E doc \in IF calls = <<>> THEN QualityDocs ELSE Returned("quality"), fix \in BOOLEAN :
        Len(calls) < MaxQualityCalls /\ CallQuality(doc, fix)

SpecQuality == InitWith({"a"}) /\ [][NextQuality]_vars

\* Labels: a container k1 and a text t1 bound to it.
Word(n) == [i \in 1..n |-> "a"]

\* "aaa"; "aaaa aaaa"; four words of four; one word of twenty; two
\* paragraphs, the first ending in \r\n, with a double space
Texts ==
    {Word(3),
     Word(4) \o <<" ">> \o Word(4),
     Word(4) \o <<" ">> \o Word(4) \o <<" ">> \o Word(4) \o <<" ">> \o Word(4),
     Word(20),
     Word(4) \o <<" ", " ">> \o Word(4) \o <<"\r", "\n">> \o Word(4) \o <<" ">>
         \o Word(4) \o <<" ">> \o Word(4)}

ContainerWidths == {40, 56, 180}

\* fontSize 0 stands for a text without the field
FontSizes == {0, 8}

Label(text, fontSize, containerId) ==
    LET base == [id |-> "t1", type |-> "text", x |-> 10, y |-> 20, width |-> 500,
                 height |-> 24, angle |-> 0, isDeleted |-> FALSE, version |-> 1,
                 text |-> text]
        sized == IF fontSize = 0 THEN base ELSE ("fontSize" :> fontSize) @@ base
    IN  IF containerId = "" THEN sized
        ELSE ("containerId" :> containerId) @@ sized

LabelDoc(width, deleted, label) ==
    normalizeScene(NewScene("a", "label",
        <<[Shape("k1", 0, 0, width, 80) EXCEPT !.isDeleted = deleted], label>>))

LabelDocs ==
    {LabelDoc(width, deleted, Label(text, fontSize, containerId)) :
        width \in ContainerWidths, deleted \in BOOLEAN, text \in Texts,
        fontSize \in FontSizes, containerId \in {"", "k1", "gone"}}

\* The quality pass applied to a label, then to what it returned.
MaxWrapCalls == 2

NextWrap ==
    \E doc \in IF calls = <<>> THEN LabelDocs ELSE Returned("quality"), fix \in BOOLEAN :
        Len(calls) < MaxWrapCalls /\ CallQuality(doc, fix)

SpecWrap == InitWith({"a"}) /\ [][NextWrap]_vars

\* The quality pass applied to a diagram or a label, then again to a document
\* it was given or returned before.
MaxRepeatCalls == 3

NextRepeat ==
    \E doc \in IF calls = <<>> THEN QualityDocs \cup LabelDocs
                ELSE {calls[c].arg : c \in Issued} \cup Returned("quality"),
       fix \in BOOLEAN :
        Len(calls) < MaxRepeatCalls /\ CallQuality(doc, fix)

SpecRepeat == InitWith({"a"}) /\ [][NextRepeat]_vars

\* setLibrary patches applied to the seed document and to every document an
\* earlier applyPatch returned.
MaxLibraryCalls == 3

LibraryBatches == {"libAB", "libBA", "libA2", "libOnlyB", "libAA"}

NextLibrary ==
    \E doc \in {SeedDoc("a")} \cup Returned("applyPatch"), batch \in LibraryBatches :
        Len(calls) < MaxLibraryCalls /\ CallApplyPatch(doc, batch)

SpecLibrary == InitWith({"a"}) /\ [][NextLibrary]_vars

\* setAppState patches, written by a caller of patchScene or built by
\* patchAppState, applied the same way.
MaxAppStateCalls == 3

AppStateBatches ==
    {"themeMerge", "zoomOmitted", "gridReplace", "zoomViaService", "gridViaServiceReplace"}

NextAppState ==
    \E doc \in {SeedDoc("a")} \cup Returned("applyPatch"), batch \in AppStateBatches :
        Len(calls) < MaxAppStateCalls /\ CallApplyPatch(doc, batch)

SpecAppState == InitWith({"a"}) /\ [][NextAppState]_vars

(***************************************************************************)
(* SceneStore.load and SceneStore.save called directly by one caller, each *)
(* call awaited before the next.  Documents are mutable objects: an object *)
(* has an identity (the call that made it and its role) next to its        *)
(* content, a cache entry holds the identity of the object it refers to,   *)
(* and an assignment to an object changes the content seen through every   *)
(* reference to it.                                                        *)
(***************************************************************************)

\* variants: the object itself is returned or stored
SharesOnHit == FALSE
SharesOnMiss == FALSE
SharesOnSave == FALSE

\* `return structuredClone(cached.scene)`, `return structuredClone(parsed)`
\* and `scene: structuredClone(scene)`: a new object with the same content
ClonesOnHit == TRUE
ClonesOnMiss == TRUE
ClonesOnSave == TRUE

StoreCall(kind, sceneId, path, object, scene, onDisk) ==
    [kind |-> kind, pc |-> "done", sceneId |-> sceneId, path |-> path,
     object |-> object, scene |-> scene, out |-> scene, onDisk |-> onDisk]

\* Fields: object and scene are the identity and the present content of the
\* document the caller holds; out is the content load returned, when it
\* returned; onDisk is the document the scene file held then; path is "hit"
\* or "miss".

CachedObject(mtimeMs, scene, object) ==
    [present |-> TRUE, mtimeMs |-> mtimeMs, scene |-> scene, object |-> object]

\* store.load(sceneId) of an existing scene
StoreLoad(sceneId) ==
    LET c == Len(calls) + 1
        file == files[sceneId]
        cached == cache[1][sceneId]
        hit == IF cached.present THEN cached.mtimeMs = file.mtimeMs ELSE FALSE
    IN  /\ file.exists
        /\ IF hit
           THEN /\ calls' = Append(calls,
                       StoreCall("load", sceneId, "hit",
                                 IF ClonesOnHit THEN <<c, "clone">> ELSE cached.object,
                                 cached.scene, file.doc))
                /\ UNCHANGED cache
           ELSE /\ cache' = [cache EXCEPT ![1][sceneId] =
                                 CachedObject(file.mtimeMs, file.doc, <<c, "parsed">>)]
                /\ calls' = Append(calls,
                       StoreCall("load", sceneId, "miss",
                                 IF ClonesOnMiss THEN <<c, "clone">> ELSE <<c, "parsed">>,
                                 file.doc, file.doc))
        /\ UNCHANGED <<files, tmpFiles, sceneLocks, clock, history>>
        /\ UnchangedSessionsAndBrowser

\* store.save(scene) of the document call d holds: writeFile, rename, stat
\* and cache.set
StoreSave(d) ==
    LET c == Len(calls) + 1
        held == calls[d]
    IN  /\ held.kind = "load"
        /\ \E now \in {clock, clock + 1} :
              /\ clock' = now
              /\ files' = [files EXCEPT ![held.sceneId] = FullFile(held.scene, now)]
              /\ cache' = [cache EXCEPT ![1][held.sceneId] =
                    CachedObject(now, held.scene,
                                 IF ClonesOnSave THEN <<c, "clone">> ELSE held.object)]
        /\ calls' = Append(calls, StoreCall("save", held.sceneId, "none", held.object,
                                            held.scene, held.scene))
        /\ UNCHANGED <<tmpFiles, sceneLocks, history>>
        /\ UnchangedSessionsAndBrowser

\* another process rewrites the scene file with the same content: its mtime
\* moves on
StoreTouch(sceneId) ==
    /\ files[sceneId].exists
    /\ clock' = clock + 1
    /\ files' = [files EXCEPT ![sceneId].mtimeMs = clock + 1]
    /\ calls' = Append(calls, StoreCall("touch", sceneId, "none", <<0, "none">>,
                                        NoDoc, files[sceneId].doc))
    /\ UNCHANGED <<tmpFiles, cache, sceneLocks, history>>
    /\ UnchangedSessionsAndBrowser

\* the caller assigns a field of the document call d returned or saved:
\* every reference to that object sees the new content
CallerMutates(d, name) ==
    LET object == calls[d].object
        Changed(scene) == [scene EXCEPT !.name = name]
    IN  /\ calls[d].kind \in {"load", "save"}
        /\ calls[d].scene.name # name
        /\ calls' = [k \in 1..Len(calls) |->
                        IF calls[k].object = object
                        THEN [calls[k] EXCEPT !.scene = Changed(@)]
                        ELSE calls[k]]
        /\ cache' = [svc \in DOMAIN cache |-> [id \in DOMAIN cache[svc] |->
                        IF cache[svc][id].present
                        THEN IF cache[svc][id].object = object
                             THEN [cache[svc][id] EXCEPT !.scene = Changed(@)]
                             ELSE cache[svc][id]
                        ELSE cache[svc][id]]]
        /\ UNCHANGED <<files, tmpFiles, sceneLocks, clock, history>>
        /\ UnchangedSessionsAndBrowser

MaxStoreCalls == 4

NextStore ==
    \/ Len(calls) < MaxStoreCalls /\ StoreLoad("a")
    \/ \E d \in Issued : Len(calls) < MaxStoreCalls /\ StoreSave(d)
    \/ Len(calls) < MaxStoreCalls /\ StoreTouch("a")
    \/ \E d \in Issued, name \in {"x", "y"} : CallerMutates(d, name)

SpecStore == InitWith({"a"}) /\ [][NextStore]_vars

(***************************************************************************)
(* Scene ids and paths (pathSafety.ts, SceneStore.scenePath).  An id is    *)
(* the sequence of its characters; a path is kept relative to the storage  *)
(* root, as path.relative(resolve(root), resolve(candidate)) gives it.     *)
(***************************************************************************)
\* the characters of [a-zA-Z0-9_-]
SafeChars ==
    {"a", "b", "c", "d", "e", "f", "g", "h", "i", "j", "k", "l", "m", "n", "o", "p", "q",
     "r", "s", "t", "u", "v", "w", "x", "y", "z",
     "A", "B", "C", "D", "E", "F", "G", "H", "I", "J", "K", "L", "M", "N", "O", "P", "Q",
     "R", "S", "T", "U", "V", "W", "X", "Y", "Z",
     "0", "1", "2", "3", "4", "5", "6", "7", "8", "9", "_", "-"}

\* a variant of sanitizeSceneId: every id passes
sanitizeNothing(sceneId) == TRUE

\* sanitizeSceneId: /^[a-zA-Z0-9_-]+$/.test(sceneId); FALSE stands for the
\* BAD_REQUEST it throws
sanitizeSceneId(sceneId) ==
    Len(sceneId) >= 1 /\ \A i \in 1..Len(sceneId) : sceneId[i] \in SafeChars

\* `${safeId}.excalidraw.json`
SceneFileName(safeId) ==
    safeId \o <<".", "e", "x", "c", "a", "l", "i", "d", "r", "a", "w", ".", "j", "s",
                "o", "n">>

\* resolve and relative over the segments of a path below the root: empty
\* and "." segments are dropped, ".." drops the segment before it or, with
\* none left below the root, stays
RECURSIVE ResolveSegments(_, _)
ResolveSegments(resolved, segments) ==
    IF segments = <<>> THEN resolved
    ELSE The({IF segment = <<>> \/ segment = <<".">>
              THEN ResolveSegments(resolved, Tail(segments))
              ELSE IF segment = <<".", ".">>
              THEN IF resolved # <<>> /\ resolved[Len(resolved)] # <<".", ".">>
                   THEN ResolveSegments(SubSeq(resolved, 1, Len(resolved) - 1),
                                        Tail(segments))
                   ELSE ResolveSegments(Append(resolved, segment), Tail(segments))
              ELSE ResolveSegments(Append(resolved, segment), Tail(segments)) :
              segment \in {Head(segments)}})

\* relative(resolve(root), resolve(join(root, name)))
RelativeToRoot(name) == Join(ResolveSegments(<<>>, SplitOn(name, {"/"})), "/")

\* rel.includes("../")
IncludesParentStep(rel) ==
    \E i \in 1..(Len(rel) - 2) : SubSeq(rel, i, i + 2) = <<".", ".", "/">>

\* ensureInsideRoot: FALSE stands for the BAD_REQUEST it throws when rel
\* starts with ".." or includes "../"
ensureInsideRoot(rel) ==
    ~((Len(rel) >= 2 /\ SubSeq(rel, 1, 2) = <<".", ".">>) \/ IncludesParentStep(rel))

\* SceneStore.scenePath: the path below the root, or the throw
scenePath(sceneId) ==
    IF ~sanitizeSceneId(sceneId) THEN [ok |-> FALSE, path |-> <<>>]
    ELSE The({IF ensureInsideRoot(rel) THEN [ok |-> TRUE, path |-> rel]
              ELSE [ok |-> FALSE, path |-> <<>>] :
              rel \in {RelativeToRoot(SceneFileName(sceneId))}})

\* one store or service call: its result and the file system calls it made,
\* each with the path it named (<<>> is the storage root itself)
PathCall(kind, sceneId, result, accessed) ==
    [kind |-> kind, pc |-> "done", sceneId |-> sceneId, result |-> result,
     accessed |-> accessed]

\* the scene files written so far
Written ==
    UNION {{calls[c].accessed[k][2] :
               k \in {j \in 1..Len(calls[c].accessed) :
                         calls[c].accessed[j][1] = "rename"}} : c \in Issued}

\* what store.exists does for the id: the result and the file system calls
ExistsOutcome(sceneId) ==
    The({IF ~at.ok THEN [result |-> "BAD_REQUEST", accessed |-> <<>>]
         ELSE [result |-> IF at.path \in Written THEN "true" ELSE "false",
               accessed |-> <<<<"stat", at.path>>>>] :
         at \in {scenePath(sceneId)}})

\* store.load: scenePath, stat, then readFile on a cache miss (the cache is
\* left out: every load reads)
LoadOutcome(sceneId) ==
    The({IF ~at.ok THEN [result |-> "BAD_REQUEST", accessed |-> <<>>]
         ELSE IF at.path \notin Written
         THEN [result |-> "NOT_FOUND", accessed |-> <<<<"stat", at.path>>>>]
         ELSE [result |-> "ok",
               accessed |-> <<<<"stat", at.path>>, <<"readFile", at.path>>>>] :
         at \in {scenePath(sceneId)}})

\* store.save: init (mkdir of the root), scenePath, mkdir of the parent,
\* writeFile of the temporary path, rename, stat.  (The temporary path is
\* the scene path with a suffix: it is recorded as the scene path.)
SaveOutcome(sceneId) ==
    The({IF ~at.ok THEN [result |-> "BAD_REQUEST", accessed |-> <<<<"mkdir", <<>>>>>>]
         ELSE [result |-> "ok",
               accessed |-> <<<<"mkdir", <<>>>>, <<"mkdir", <<>>>>,
                              <<"writeFile", at.path>>, <<"rename", at.path>>,
                              <<"stat", at.path>>>>] :
         at \in {scenePath(sceneId)}})

\* createScene: store.exists, then CONFLICT or store.save
CreateOutcome(sceneId) ==
    The({IF found.result = "BAD_REQUEST" THEN found
         ELSE IF found.result = "true"
         THEN [result |-> "CONFLICT", accessed |-> found.accessed]
         ELSE The({[result |-> saved.result,
                    accessed |-> found.accessed \o saved.accessed] :
                   saved \in {SaveOutcome(sceneId)}}) :
         found \in {ExistsOutcome(sceneId)}})

PathOutcome(kind, sceneId) ==
    CASE kind = "exists" -> ExistsOutcome(sceneId)
      [] kind = "load" -> LoadOutcome(sceneId)
      [] kind = "save" -> SaveOutcome(sceneId)
      [] kind = "create" -> CreateOutcome(sceneId)

\* one call of store.exists, store.load, store.save or createScene
CallStore(kind, sceneId) ==
    /\ calls' = Append(calls, The({PathCall(kind, sceneId, outcome.result,
                                            outcome.accessed) :
                                   outcome \in {PathOutcome(kind, sceneId)}}))
    /\ UNCHANGED <<files, tmpFiles, cache, sceneLocks, clock, history>>
    /\ UnchangedSessionsAndBrowser

\* the ids the calls are made with: a, A_1-z, the empty id, ../x, a/b, a.b,
\* "a ", a followed by a line feed, "..", "."
CandidateIds ==
    {<<"a">>, <<"A", "_", "1", "-", "z">>, <<>>, <<".", ".", "/", "x">>,
     <<"a", "/", "b">>, <<"a", ".", "b">>, <<"a", " ">>, <<"a", "\n">>, <<".", ".">>,
     <<".">>}

MaxPathCalls == 2

NextPaths ==
    \E kind \in {"exists", "load", "save", "create"}, sceneId \in CandidateIds :
        Len(calls) < MaxPathCalls /\ CallStore(kind, sceneId)

SpecPaths == InitWith({"a"}) /\ [][NextPaths]_vars

(***************************************************************************)
(* normalizeScene (normalize.ts) on documents as they arrive from JSON:    *)
(* a field of an element may be missing or hold a value of any type.  A    *)
(* value is a record tagged with its type; a number is finite, NaN has a   *)
(* tag of its own.                                                         *)
(***************************************************************************)
JsUndefined == [t |-> "undefined"]
JsNull == [t |-> "null"]
JsNaN == [t |-> "NaN"]
JsNum(n) == [t |-> "number", n |-> n]
JsStr(s) == [t |-> "string", s |-> s]
JsBool(b) == [t |-> "boolean", b |-> b]

\* next.field: undefined when the object has no such field
Get(object, field) == IF field \in DOMAIN object THEN object[field] ELSE JsUndefined

\* value ?? default
Coalesce(value, default) ==
    IF value.t \in {"null", "undefined"} THEN default ELSE value

\* Number(value), for the strings of the model
Number(value) ==
    CASE value.t = "number" -> value
      [] value.t = "NaN" -> JsNaN
      [] value.t = "undefined" -> JsNaN
      [] value.t = "null" -> JsNum(0)
      [] value.t = "boolean" -> JsNum(IF value.b THEN 1 ELSE 0)
      [] value.t = "string" ->
            CASE value.s = "" -> JsNum(0)
              [] value.s = "12" -> JsNum(12)
              [] OTHER -> JsNaN

\* Boolean(value)
Boolean(value) ==
    JsBool(CASE value.t = "boolean" -> value.b
             [] value.t = "number" -> value.n # 0
             [] value.t = "string" -> value.s # ""
             [] OTHER -> FALSE)

\* normalizeElement: the coerced fields, then the element's own fields spread
\* over them.  uuid and nonce are what randomUUID() and Math.random() give
\* this call.  (The element is an object: ensureObject returns it.)
NormalizeRawElement(next, uuid, nonce) ==
    Spread([id |-> IF Get(next, "id").t = "string" /\ Get(next, "id").s # ""
                   THEN Get(next, "id") ELSE JsStr(uuid),
            type |-> IF Get(next, "type").t = "string" THEN Get(next, "type")
                     ELSE JsStr("rectangle"),
            x |-> Number(Coalesce(Get(next, "x"), JsNum(0))),
            y |-> Number(Coalesce(Get(next, "y"), JsNum(0))),
            width |-> Number(Coalesce(Get(next, "width"), JsNum(100))),
            height |-> Number(Coalesce(Get(next, "height"), JsNum(100))),
            angle |-> Number(Coalesce(Get(next, "angle"), JsNum(0))),
            isDeleted |-> Boolean(Get(next, "isDeleted")),
            version |-> Number(Coalesce(Get(next, "version"), JsNum(1))),
            versionNonce |-> Number(Coalesce(Get(next, "versionNonce"), JsNum(nonce)))],
           next)

\* element?.type === name
TypeIs(element, name) == Get(element, "type") = JsStr(name)

detectEngineHints(elements) ==
    [hasFrames |-> \E i \in 1..Len(elements) :
                      TypeIs(elements[i], "frame") \/ TypeIs(elements[i], "magicframe"),
     hasEmbeddables |-> \E i \in 1..Len(elements) : TypeIs(elements[i], "embeddable"),
     hasImages |-> \E i \in 1..Len(elements) : TypeIs(elements[i], "image")]

\* a variant of HashedElements: the digest is taken over the elements given
HashedGivenElements(given, normalized) == given

\* the elements computeRevisionHash is called with: the normalized ones
HashedElements(given, normalized) == normalized

\* the ids randomUUID() gives the elements of one call: draw d, element i
RandomUUID(draw, i) ==
    CASE draw = 1 /\ i = 1 -> "u1"
      [] draw = 1 /\ i = 2 -> "u2"
      [] draw = 2 /\ i = 1 -> "u3"
      [] draw = 2 /\ i = 2 -> "u4"

\* normalizeScene at the time `now`, with the random draw `draw`.  (elements
\* and libraryItems are arrays and appState and files objects in every input,
\* so ensureArray and ensureObject return them.)
NormalizeRawScene(scene, now, draw) ==
    The({[metadata |-> [scene.metadata EXCEPT
                           !.updatedAt = now,
                           !.elementCount = Len(elements),
                           !.fileCount = Cardinality(DOMAIN scene.files),
                           !.engineHints = detectEngineHints(elements),
                           !.revisionHash =
                               computeRevisionHash(HashedElements(scene.elements, elements),
                                                   scene.appState, scene.files,
                                                   scene.libraryItems)],
          elements |-> elements,
          appState |-> scene.appState,
          files |-> scene.files,
          libraryItems |-> scene.libraryItems] :
         elements \in {[i \in 1..Len(scene.elements) |->
                           NormalizeRawElement(scene.elements[i], RandomUUID(draw, i),
                                               100 * draw + i)]}})

\* the values a field arrives with; Absent stands for a missing field
Absent == [t |-> "absent"]
RawIds == {Absent, JsNull, JsStr(""), JsNum(7), JsStr("e1")}
RawNumbers == {Absent, JsNull, JsStr("abc"), JsNum(5)}
RawTypes == {Absent, JsStr("image"), JsNum(3)}

\* the object with the fields that are not Absent
RawElement(id, type, x, width) ==
    LET given == [id |-> id, type |-> type, x |-> x, width |-> width]
    IN  [field \in {f \in DOMAIN given : given[f] # Absent} |-> given[field]]

RawElements ==
    {RawElement(id, type, x, width) :
        id \in RawIds, type \in RawTypes, x \in RawNumbers, width \in {Absent, JsNum(50)}}

\* createSceneMetadata and an envelope around the elements
RawScene(elements) ==
    [metadata |-> [sceneId |-> "a", name |-> "raw", createdAt |-> 0, updatedAt |-> 0,
                   elementCount |-> 0, fileCount |-> 0,
                   engineHints |-> [hasFrames |-> FALSE, hasEmbeddables |-> FALSE,
                                    hasImages |-> FALSE],
                   revisionHash |-> <<>>],
     elements |-> elements, appState |-> <<>>, files |-> <<>>, libraryItems |-> <<>>]

\* one element of each kind, and two elements without an id
RawScenes ==
    {RawScene(<<element>>) : element \in RawElements}
        \cup {RawScene(<<RawElement(Absent, Absent, JsNum(1), Absent),
                         RawElement(Absent, Absent, JsNum(2), Absent)>>)}

\* normalizeScene(doc): the clock may have advanced since the previous call
CallNormalize(doc, draw) ==
    /\ \E now \in {clock, clock + 1} :
          /\ clock' = now
          /\ calls' = Append(calls, EngineCall("normalize", doc, draw,
                                 [scene |-> NormalizeRawScene(doc, now, draw)]))
    /\ UNCHANGED <<files, tmpFiles, cache, sceneLocks, history>>
    /\ UnchangedSessionsAndBrowser

\* normalizeScene applied to a document from JSON, then to what it returned.
MaxNormalizeCalls == 3

NextNormalize ==
    \E doc \in IF calls = <<>> THEN RawScenes ELSE Returned("normalize"),
       draw \in 1..2 :
        Len(calls) < MaxNormalizeCalls /\ CallNormalize(doc, draw)

SpecNormalize == InitWith({"a"}) /\ [][NextNormalize]_vars

(***************************************************************************)
(* Helpers of the statements below.                                        *)
(***************************************************************************)
Done(c) == calls[c].pc = "done"

AllDone == \A c \in Issued : Done(c)

IsLocked(c) == calls[c].kind \in LockedKinds

\* the call is between the start of its load and the end of its save
InBody(c) == calls[c].pc \notin {"waitLock", "done"}

\* what a completed call does to the document when it runs alone.  A call
\* whose save failed before the rename, like a call that threw, persists nothing.
Effect(call, doc) ==
    IF call.result = "IO_ERROR" THEN doc
    ELSE CASE call.kind = "patch" ->
                LET patched == applyPatch(doc, BatchOps(call.batch))
                IN  IF patched.ok THEN patched.scene ELSE doc
           [] call.kind = "normalize" -> normalizeScene(doc)
           [] call.kind = "fit" -> fitToContent(doc)
           [] OTHER -> doc

\* the seed document after the calls on the scene, one after the other in
\* arrival order
SequentialResult(sceneId) ==
    LET F[k \in 0..Len(calls)] ==
            IF k = 0 THEN SeedDoc(sceneId)
            ELSE IF calls[k].sceneId = sceneId THEN Effect(calls[k], F[k - 1])
            ELSE F[k - 1]
    IN  F[Len(calls)]

\* the result each patch call has when the calls run one after the other
SequentialOutcome(c) ==
    LET F[k \in 0..c - 1] ==
            IF k = 0 THEN SeedDoc(calls[c].sceneId)
            ELSE IF calls[k].sceneId = calls[c].sceneId THEN Effect(calls[k], F[k - 1])
            ELSE F[k - 1]
    IN  IF calls[c].kind # "patch" \/ calls[c].result = "IO_ERROR" THEN calls[c].result
        ELSE IF applyPatch(F[c - 1], BatchOps(calls[c].batch)).ok THEN "ok" ELSE "NOT_FOUND"

\* a call's writeFile has completed
HasWritten(c) ==
    \/ calls[c].pc \in {"saveRename", "saveStat", "saveCache"}
    \/ calls[c].pc = "done" /\ calls[c].result = "ok" /\ calls[c].kind # "get"

\* every writeFile so far was stamped with a time later than the write before
FreshStamps == clock = Cardinality({c \in Issued : HasWritten(c)})

(***************************************************************************)
(* C1 (SpecLock).  Calls that take the scene lock on one service: once the  *)
(* calls have completed, the persisted document of every scene is the seed  *)
(* document with the batches applied one after the other in arrival order,  *)
(* and every call got the result it gets in that sequential run; no batch   *)
(* is lost.                                                                *)
(***************************************************************************)
C1_PatchesApplyInArrivalOrder ==
    AllDone =>
        \A sceneId \in SceneIds :
            files[sceneId].exists =>
                /\ files[sceneId] = FullFile(SequentialResult(sceneId), files[sceneId].mtimeMs)
                /\ \A c \in Issued :
                       calls[c].sceneId = sceneId => calls[c].result = SequentialOutcome(c)

\* two patchScene calls on scene "a", the second arrived while the first was
\* unfinished and needs the element the first adds
C1_Witness ==
    /\ Len(calls) = 2
    /\ AllDone
    /\ calls[1].kind = "patch" /\ calls[1].sceneId = "a" /\ calls[1].batch = "add"
    /\ calls[2].kind = "patch" /\ calls[2].sceneId = "a" /\ calls[2].batch = "renameUpdate"
    /\ calls[2].overlap
    /\ calls[1].result = "ok" /\ calls[2].result = "ok"
    /\ files["a"].doc.name = "renamed"
    /\ files["a"].doc.elementCount = 2

(***************************************************************************)
(* C2 (SpecLock).  Of two calls through withSceneLock for the same scene,   *)
(* the later arrival has not started its load (it is still awaiting the     *)
(* lock) until the earlier one has completed, its save included: bodies run *)
(* in arrival order, one at a time per scene.                              *)
(***************************************************************************)
C2_BodiesRunOneAtATimeInArrivalOrder ==
    \A c1, c2 \in Issued :
        (/\ c1 < c2
         /\ IsLocked(c1) /\ IsLocked(c2)
         /\ calls[c1].svc = calls[c2].svc
         /\ calls[c1].sceneId = calls[c2].sceneId
         /\ calls[c2].pc # "waitLock")
        => Done(c1)

\* the later call is in its body after the earlier one, which it had to wait
\* for, has saved
C2_Witness ==
    \E c1, c2 \in Issued :
        /\ c1 < c2 /\ IsLocked(c1) /\ IsLocked(c2)
        /\ calls[c1].sceneId = calls[c2].sceneId
        /\ calls[c2].overlap /\ calls[c2].pred = c1
        /\ Done(c1) /\ calls[c1].result = "ok"
        /\ calls[c2].pc = "saveRename"

(***************************************************************************)
(* C3 (Spec).  saveScene is serialized with patchScene on the same scene:   *)
(* once a saveScene call and a successful patchScene call on the scene have *)
(* both completed, the persisted document holds the patch.                 *)
(***************************************************************************)
C3_SaveSceneKeepsThePatch ==
    \A s, p \in Issued :
        (/\ calls[s].kind = "save" /\ calls[p].kind = "patch"
         /\ calls[s].sceneId = calls[p].sceneId
         /\ Done(s) /\ Done(p)
         /\ calls[p].result = "ok")
        => files[calls[p].sceneId].doc = SequentialResult(calls[p].sceneId)

(***************************************************************************)
(* C4 (SpecHttp).  Patch calls on the same scene that arrive through two    *)
(* MCP sessions of one HTTP server are serialized: once both have           *)
(* completed, the persisted document holds the effects of both.            *)
(***************************************************************************)
C4_SessionsAreSerialized ==
    \A c1, c2 \in Issued :
        (/\ c1 < c2
         /\ calls[c1].svc # calls[c2].svc
         /\ calls[c1].sceneId = calls[c2].sceneId
         /\ Done(c1) /\ Done(c2)
         /\ calls[c1].result = "ok" /\ calls[c2].result = "ok")
        => files[calls[c1].sceneId].doc = SequentialResult(calls[c1].sceneId)

(***************************************************************************)
(* C5 (Spec).  createScene never overwrites a persisted document: of the    *)
(* createScene calls for one scene id at most one succeeds, and none does   *)
(* when the scene was persisted before.                                    *)
(***************************************************************************)
C5_AtMostOneCreateSucceeds ==
    /\ \A c \in Issued :
           (calls[c].kind = "create" /\ calls[c].sceneId = "a" /\ Done(c))
           => calls[c].result = "CONFLICT"
    /\ \A c1, c2 \in Issued :
           (/\ c1 # c2
            /\ calls[c1].kind = "create" /\ calls[c2].kind = "create"
            /\ calls[c1].sceneId = calls[c2].sceneId
            /\ Done(c1) /\ Done(c2))
           => ~(calls[c1].result = "ok" /\ calls[c2].result = "ok")

(***************************************************************************)
(* C6 (SpecLock).  A patchScene call that fails (an operation of the batch  *)
(* throws, the scene is not found, or the save fails before the rename)     *)
(* leaves the scene file, and the document the store serves for the scene,  *)
(* as they were when its body started.                                     *)
(***************************************************************************)
C6_FailedPatchPersistsNothing ==
    [][\A c \in Issued :
           (/\ calls[c].kind = "patch"
            /\ InBody(c)
            /\ calls'[c].pc = "done"
            /\ calls'[c].result # "ok")
           => /\ files'[calls[c].sceneId] = calls[c].beforeFile
              /\ Served(calls[c].svc, calls[c].sceneId)' = calls[c].beforeServed]_vars

\* a batch whose second operation threw after its first had renamed the
\* working copy, and one whose save failed
C6_Witness ==
    \E c1, c2 \in Issued :
        /\ calls[c1].kind = "patch" /\ calls[c1].sceneId = "a"
        /\ calls[c1].batch = "renameUpdate" /\ calls[c1].result = "NOT_FOUND"
        /\ calls[c2].kind = "patch" /\ calls[c2].sceneId = "a"
        /\ calls[c2].batch = "add" /\ calls[c2].result = "IO_ERROR"
        /\ files["a"].doc = SeedDoc("a")

(***************************************************************************)
(* C7 (SpecLock).  A call through withSceneLock that failed has released    *)
(* the lock: the call queued behind it is not kept waiting, enters its own  *)
(* body, and does not fail with its predecessor's error.                   *)
(***************************************************************************)
C7_FailureReleasesTheLock ==
    \A c1, c2 \in Issued :
        (/\ calls[c2].pred = c1
         /\ Done(c1)
         /\ calls[c1].result # "ok")
        => /\ calls[c2].pc = "waitLock" => LockResolved(c2)
           /\ Done(c2) => calls[c2].ranBody /\ calls[c2].result # "REJECTED"

\* the successor of a failed call has run its body and saved
C7_Witness ==
    \E c1, c2 \in Issued :
        /\ calls[c2].pred = c1 /\ calls[c2].overlap
        /\ Done(c1) /\ calls[c1].result \in {"NOT_FOUND", "IO_ERROR"}
        /\ Done(c2) /\ calls[c2].result = "ok" /\ calls[c2].ranBody

(***************************************************************************)
(* C8 (SpecLockFair).  Every call through withSceneLock eventually          *)
(* completes or fails, given that every awaited file-system operation       *)
(* returns: no call waits for the lock for ever.                           *)
(***************************************************************************)
C8_EveryCallCompletes ==
    \A c \in 1..MaxCalls :
        (Len(calls) >= c) ~> (Len(calls) >= c /\ calls[c].pc = "done")

\* as many calls as the bound allows, all queued on one scene, all completed
C8_Witness ==
    /\ Len(calls) = MaxCalls
    /\ \A c \in Issued : calls[c].sceneId = "a" /\ Done(c)
    /\ \A c \in Issued : c > 1 => calls[c].pred = c - 1 /\ calls[c].overlap

(***************************************************************************)
(* C9 (SpecLock).  A call only ever waits for the lock behind an unfinished *)
(* earlier call on the same scene: calls on other scenes never hold it up.  *)
(***************************************************************************)
C9_OnlySameSceneCallsWait ==
    \A c \in Issued :
        (calls[c].pc = "waitLock" /\ ~LockResolved(c))
        => \E p \in Issued :
               /\ p < c
               /\ calls[p].sceneId = calls[c].sceneId
               /\ ~Done(p)

\* a call on scene "b" arrived, ran its whole body and saved while a call on
\* scene "a" was suspended in its save
C9_Witness ==
    /\ Len(calls) = 2
    /\ calls[1].sceneId = "a" /\ calls[1].pc = "saveWriting"
    /\ calls[2].sceneId = "b" /\ Done(2)
    /\ calls[2].result = "ok"
    /\ files["b"].doc = calls[2].scene
    /\ files["b"].doc # SeedDoc("b")

(***************************************************************************)
(* C10 (Spec).  A read (getScene; listElements and getAppState run the same *)
(* load) never awaits the scene lock, and it returns a whole document that  *)
(* the scene file has held; it fails only with NOT_FOUND, and only for a    *)
(* scene that was not persisted at first.                                  *)
(***************************************************************************)
C10_ReadsReturnPersistedDocuments ==
    \A c \in Issued :
        calls[c].kind = "get" =>
            /\ calls[c].pc # "waitLock"
            /\ calls[c].pred = 0
            /\ Done(c) =>
                  \/ calls[c].result = "ok" /\ calls[c].scene \in history[calls[c].sceneId]
                  \/ calls[c].result = "NOT_FOUND" /\ calls[c].sceneId # "a"

\* a read that arrived after a patch call had entered its body returned the
\* document from before the patch while the patch was between write and rename
C10_Witness ==
    \E r, p \in Issued :
        /\ p < r
        /\ calls[r].kind = "get" /\ calls[p].kind = "patch"
        /\ calls[r].sceneId = "a" /\ calls[p].sceneId = "a"
        /\ calls[p].pc = "saveRename"
        /\ Done(r) /\ calls[r].result = "ok" /\ calls[r].scene = SeedDoc("a")

(***************************************************************************)
(* C11 (Spec).  The cache never serves stale content: once no call is in    *)
(* flight, what store.load of the service returns for a persisted scene is  *)
(* the content of the scene file, even when no two writes got the same      *)
(* timestamp.                                                              *)
(***************************************************************************)
C11_CacheNeverServesStaleContent ==
    (AllDone /\ FreshStamps) =>
        \A sceneId \in SceneIds :
            files[sceneId].exists => Served(1, sceneId) = files[sceneId].doc

(***************************************************************************)
(* C12 (SpecSeq).  After any sequence of service calls the document every   *)
(* scene file holds has a revisionHash equal to the hash of its elements,   *)
(* appState, files and libraryItems, an elementCount equal to the number of *)
(* its elements and a fileCount equal to the number of its files.          *)
(***************************************************************************)
C12_PersistedMetadataIsConsistent ==
    \A sceneId \in SceneIds :
        (files[sceneId].exists /\ ~files[sceneId].partial) =>
            LET doc == files[sceneId].doc
            IN  /\ doc.revisionHash =
                       computeRevisionHash(doc.elements, doc.appState, doc.files,
                                           doc.libraryItems)
                /\ doc.elementCount = Len(doc.elements)
                /\ doc.fileCount = Cardinality(DOMAIN doc.files)

\* a document that went through a patch adding an element, one setting two
\* files, and fitToContent
C12_Witness ==
    /\ Len(calls) = 3 /\ AllDone
    /\ \A c \in Issued : calls[c].sceneId = "a" /\ calls[c].result = "ok"
    /\ calls[1].batch = "add" /\ calls[2].batch = "setFiles" /\ calls[3].kind = "fit"
    /\ files["a"].doc.elementCount = 2
    /\ files["a"].doc.fileCount = 2
    /\ "scrollX" \in DOMAIN files["a"].doc.appState

(***************************************************************************)
(* C13 (SpecSeq).  After any sequence of createScene (with seed elements)   *)
(* and patch operations, no two non-deleted elements of a persisted         *)
(* document have the same id.                                              *)
(***************************************************************************)
C13_LiveElementIdsAreUnique ==
    \A sceneId \in SceneIds :
        files[sceneId].exists =>
            LET elements == files[sceneId].doc.elements
            IN  \A i, j \in 1..Len(elements) :
                    (/\ i # j
                     /\ ~elements[i].isDeleted
                     /\ ~elements[j].isDeleted)
                    => elements[i].id # elements[j].id


\* the applyPatch calls made so far
PatchCalls == {c \in Issued : calls[c].kind = "applyPatch"}

\* the elements of a document that carry an id
WithId(scene, id) ==
    {i \in 1..Len(scene.elements) : scene.elements[i].id = id}

UpdatedIds(operations) ==
    {operations[1].elements[i].id : i \in 1..Len(operations[1].elements)}

\* C15: an updateElements operation that names an id no element of the
\* document has throws NOT_FOUND (and succeeds when every id it names is
\* there); a deleteElements operation that names only such ids succeeds,
\* leaves every element as it was and adds nothing to changedElementIds.
C15_UnknownIdFailsUpdateNotDelete ==
    \A c \in PatchCalls :
        LET call == calls[c]
            operations == BatchOps(call.option)
        IN  /\ (Len(operations) = 1 /\ operations[1].op = "updateElements") =>
                    (call.out.ok <=>
                        \A id \in UpdatedIds(operations) : WithId(call.arg, id) # {})
            /\ (/\ Len(operations) = 1
                /\ operations[1].op = "deleteElements"
                /\ \A id \in operations[1].elementIds : WithId(call.arg, id) = {}) =>
                    /\ call.out.ok
                    /\ call.out.scene.elements = call.arg.elements
                    /\ call.out.changedElementIds = {}

\* an update of the unknown id zz threw, and a delete of zz succeeded on a
\* document that holds elements
C15_Witness ==
    /\ \E c \in PatchCalls :
            calls[c].option = "updateUnknown" /\ ~calls[c].out.ok
    /\ \E c \in PatchCalls :
            /\ calls[c].option = "deleteUnknown"
            /\ calls[c].arg.elements # <<>>
            /\ calls[c].out.ok
            /\ calls[c].out.changedElementIds = {}

\* the listElements calls made so far
ListCalls == {c \in Issued : calls[c].kind = "listElements"}

\* the ids of a sequence of elements
IdsOf(elements) == {elements[i].id : i \in 1..Len(elements)}

\* C16: a soft delete leaves every element in its place, and marks the named
\* ones isDeleted with their version raised by one; listElements with the
\* default options then returns none of them and with includeDeleted returns
\* them.  A hard delete leaves no element with the id, and an updateElements
\* naming the id on the document it returned throws NOT_FOUND.
C16_SoftDeleteHidesHardDeleteRemoves ==
    /\ \A c \in PatchCalls :
           LET call == calls[c]
               before == call.arg.elements
               after == call.out.scene.elements
           IN  /\ call.option = "softDelete" =>
                      /\ call.out.ok
                      /\ Len(after) = Len(before)
                      /\ \A i \in 1..Len(before) :
                             after[i] =
                                IF before[i].id = "e0"
                                THEN [before[i] EXCEPT !["isDeleted"] = TRUE,
                                                       !["version"] = @ + 1]
                                ELSE before[i]
               /\ call.option = "hardDelete" =>
                      /\ call.out.ok
                      /\ WithId(call.out.scene, "e0") = {}
               /\ (call.option = "move" /\ \E d \in PatchCalls :
                        /\ calls[d].option = "hardDelete"
                        /\ calls[d].out.scene = call.arg) => ~call.out.ok
    /\ \A c \in ListCalls :
           LET call == calls[c]
           IN  /\ call.option.includeDeleted => call.out = call.arg.elements
               /\ ~call.option.includeDeleted =>
                      /\ \A i \in 1..Len(call.out) : ~call.out[i].isDeleted
                      /\ \A i \in 1..Len(call.arg.elements) :
                             ~call.arg.elements[i].isDeleted =>
                                 \E k \in 1..Len(call.out) :
                                     call.out[k] = call.arg.elements[i]
               /\ \A d \in PatchCalls :
                      (calls[d].option = "softDelete" /\ calls[d].out.scene = call.arg) =>
                          IF call.option.includeDeleted
                          THEN IdsOf(call.out) = IdsOf(calls[d].arg.elements)
                          ELSE "e0" \notin IdsOf(call.out)

\* e0 was soft-deleted from the seed document and listed afterwards, without
\* and with includeDeleted; it was hard-deleted and then named by an update
C16_Witness ==
    \E soft, hard, update \in PatchCalls, hidden, shown \in ListCalls :
        /\ calls[soft].option = "softDelete"
        /\ calls[soft].arg = SeedDoc("a")
        /\ calls[soft].out.scene.elements[1].isDeleted
        /\ calls[soft].out.scene.elements[1].version = 2
        /\ calls[hidden].arg = calls[soft].out.scene
        /\ ~calls[hidden].option.includeDeleted
        /\ calls[hidden].out = <<>>
        /\ calls[shown].arg = calls[soft].out.scene
        /\ calls[shown].option.includeDeleted
        /\ IdsOf(calls[shown].out) = {"e0"}
        /\ calls[hard].option = "hardDelete"
        /\ WithId(calls[hard].arg, "e0") # {}
        /\ calls[update].option = "move"
        /\ calls[update].arg = calls[hard].out.scene
        /\ ~calls[update].out.ok

\* the applyDiagramQuality calls made so far
QualityCalls == {c \in Issued : calls[c].kind = "quality"}

\* C17: an element's version never decreases, and it is strictly greater
\* after every change of the element's content; stated here for the changes
\* the quality pass makes (a binding written to a connector, a boundElements
\* entry added to its target).
C17_VersionRisesOnEveryContentChange ==
    \A c \in QualityCalls :
        LET before == calls[c].arg.elements
            after == calls[c].out.scene.elements
        IN  \A i \in 1..Len(before) :
                /\ after[i].version >= before[i].version
                /\ after[i] # before[i] => after[i].version > before[i].version

\* every element c1 of the document is bound to n1 at its start and n2 at its end
ConnectorBound(doc) ==
    \A i \in WithId(doc, "c1") :
        /\ extractBindingId(doc.elements[i], "startBinding") = "n1"
        /\ extractBindingId(doc.elements[i], "endBinding") = "n2"

\* C18: patchScene runs the quality pass in fix mode after the operations.
\* When a patchScene call that added the rectangles n1 and n2 and the
\* connector c1 (its endpoints inside them, or its customData naming them)
\* has returned, c1 is bound to n1 and n2 in the document it returned and in
\* the document the scene file holds.
C18_PatchSceneFixesBindings ==
    \A c \in Issued :
        (/\ calls[c].kind = "patch"
         /\ calls[c].batch \in DiagramBatches
         /\ calls[c].pc = "done"
         /\ calls[c].result = "ok") =>
            /\ ConnectorBound(calls[c].scene)
            /\ (files["a"].exists /\ ~files["a"].partial) => ConnectorBound(files["a"].doc)

\* an element with the id exists and is not deleted
IsLive(elements, id) ==
    \E i \in 1..Len(elements) : elements[i].id = id /\ ~elements[i].isDeleted

\* the target the priority order gives one side of a connector: the existing
\* binding if it points at a live element, else the hint if an element has
\* its id, else what the geometry gives; "" when nothing resolves
PriorityTarget(elements, connector, side, hintKey, endpoint) ==
    LET currentId == extractBindingId(connector, side)
        hintId == HintId(connector, hintKey)
    IN  IF currentId # "" /\ IsLive(elements, currentId) THEN currentId
        ELSE IF hintId # "" /\ HasElement(elements, hintId) THEN hintId
        ELSE inferBindingTargetId(endpoint, elements, connector.id)

\* the CONNECTOR_UNBOUND issues reported for one side of a connector
UnboundIssues(issues, elementId, sideName) ==
    {k \in 1..Len(issues) : issues[k] = UnboundIssue(elementId, sideName)}

\* what one call did for one side of connector i, against the priority order
SideFollowsPriority(call, i, side, sideName, hintKey, endpoint) ==
    LET before == call.arg.elements[i]
        after == call.out.scene.elements[i]
        target == PriorityTarget(call.arg.elements, before, side, hintKey, endpoint)
        reported == UnboundIssues(call.out.issues, before.id, sideName)
    IN  IF target = ""
        THEN /\ Cardinality(reported) = 1
             /\ extractBindingId(after, side) = extractBindingId(before, side)
        ELSE /\ reported = {}
             /\ call.option => extractBindingId(after, side) = target

\* C19: for each endpoint of a connector the quality pass resolves the target
\* in priority order (the existing binding if it points at an existing,
\* non-deleted element, else the customData hint if it resolves, else the
\* geometric inference); when nothing resolves it reports exactly one
\* CONNECTOR_UNBOUND error for the side and leaves the side's binding as it
\* was; otherwise it reports none and, in fix mode, the binding names the
\* target.
C19_TargetResolvedInPriorityOrder ==
    \A c \in QualityCalls :
        \A i \in 1..Len(calls[c].arg.elements) :
            calls[c].arg.elements[i].type \in CONNECTOR_TYPES =>
                LET endpoints == connectorEndpoints(calls[c].arg.elements[i])
                IN  /\ SideFollowsPriority(calls[c], i, "startBinding", "start",
                                           "fromId", endpoints.start)
                    /\ SideFollowsPriority(calls[c], i, "endBinding", "end",
                                           "toId", endpoints.end)

\* the elements the geometry admits as the target of an endpoint: not the
\* connector, not a connector, not deleted, and the endpoint within 12 of
\* their rectangle
Admitted(elements, point, connectorId) ==
    {i \in 1..Len(elements) :
        /\ elements[i].id # connectorId
        /\ elements[i].type \notin {"arrow", "line"}
        /\ ~elements[i].isDeleted
        /\ point.x >= elements[i].x - 12
        /\ point.x <= elements[i].x + elements[i].width + 12
        /\ point.y >= elements[i].y - 12
        /\ point.y <= elements[i].y + elements[i].height + 12}

\* twice the offset of a point from the centre of an element, squared
CentreOffset(element, point) ==
    LET dx == 2 * point.x - (2 * element.x + element.width)
        dy == 2 * point.y - (2 * element.y + element.height)
    IN  dx * dx + dy * dy

\* the admitted element whose centre is closest, the earliest of the closest
Closest(elements, point, connectorId) ==
    LET admitted == Admitted(elements, point, connectorId)
    IN  CHOOSE i \in admitted :
            \A j \in admitted :
                \/ CentreOffset(elements[i], point) < CentreOffset(elements[j], point)
                \/ /\ CentreOffset(elements[i], point) = CentreOffset(elements[j], point)
                   /\ i <= j

\* one side of connector i that has neither a binding nor a hint: when the
\* geometry admits an element, no issue is reported for the side and, in fix
\* mode, the side is bound to the closest
SideBoundToClosest(call, i, side, sideName, hintKey, point) ==
    LET before == call.arg.elements[i]
        after == call.out.scene.elements[i]
    IN  (/\ extractBindingId(before, side) = ""
         /\ HintId(before, hintKey) = ""
         /\ Admitted(call.arg.elements, point, before.id) # {}) =>
            /\ UnboundIssues(call.out.issues, before.id, sideName) = {}
            /\ call.option =>
                   extractBindingId(after, side) =
                       call.arg.elements[Closest(call.arg.elements, point, before.id)].id

SideBindingValid(call, i, side, sideName) ==
    LET elements == call.out.scene.elements
        connector == elements[i]
        bindingId == extractBindingId(connector, side)
    IN  (/\ bindingId # ""
         /\ UnboundIssues(call.out.issues, connector.id, sideName) = {}) =>
            /\ bindingId # connector.id
            /\ \E k \in 1..Len(elements) :
                   /\ elements[k].id = bindingId
                   /\ ~elements[k].isDeleted
                   /\ elements[k].type \notin CONNECTOR_TYPES

\* C21: after the quality pass has run with fix = true, every startBinding
\* and endBinding it wrote, or kept without raising an issue, names an
\* element that exists in the document, is not deleted, is not a connector
\* and is not the connector itself.
C21_RepairedBindingsNameLiveShapes ==
    \A c \in QualityCalls :
        calls[c].option =>
            \A i \in 1..Len(calls[c].out.scene.elements) :
                calls[c].out.scene.elements[i].type \in CONNECTOR_TYPES =>
                    /\ SideBindingValid(calls[c], i, "startBinding", "start")
                    /\ SideBindingValid(calls[c], i, "endBinding", "end")

\* the text elements of a document that are not deleted and whose containerId
\* names an element of the document
BoundTexts(scene) ==
    {i \in 1..Len(scene.elements) :
        /\ scene.elements[i].type = "text"
        /\ ~scene.elements[i].isDeleted
        /\ "containerId" \in DOMAIN scene.elements[i]
        /\ HasElement(scene.elements, scene.elements[i].containerId)}

\* C22: after any sequence of patch operations, every non-deleted text
\* element whose containerId names an element of the document names one that
\* is not deleted.
C22_ContainerOfLiveTextIsLive ==
    \A c \in PatchCalls :
        calls[c].out.ok =>
            \A i \in BoundTexts(calls[c].out.scene) :
                IsLive(calls[c].out.scene.elements,
                       calls[c].out.scene.elements[i].containerId)

\* the container of text i, for a text whose containerId names an element
ContainerOf(elements, i) ==
    elements[ElementIndex(elements, elements[i].containerId)]

\* the texts of a document bound to a non-deleted container whose estimated
\* width exceeds the container's width less the padding
OverflowingTexts(scene) ==
    {i \in BoundTexts(scene) :
        /\ ~ContainerOf(scene.elements, i).isDeleted
        /\ estimateTextWidth(TextOf(scene.elements[i]), FontSizeOf(scene.elements[i]))
               > MaxTextWidth(ContainerOf(scene.elements, i)) * 100}

\* the TEXT_OVERFLOW issues reported for an element
OverflowIssues(issues, elementId) ==
    {k \in 1..Len(issues) :
        issues[k].code = "TEXT_OVERFLOW" /\ issues[k].elementId = elementId}

\* C23: for every text bound to a non-deleted container whose estimated
\* width exceeds the container's width less the padding, the quality pass
\* with fix = true rewrites the text so that no line is longer than the
\* computed maximum of characters per line, and an analysis-only pass on the
\* returned document reports no TEXT_OVERFLOW for the element.
C23_WrappedTextFitsContainer ==
    \A c \in QualityCalls :
        calls[c].option =>
            \A i \in OverflowingTexts(calls[c].arg) :
                LET before == calls[c].arg.elements
                    after == calls[c].out.scene.elements[i]
                    limit == MaxChars(MaxTextWidth(ContainerOf(before, i)),
                                      FontSizeOf(before[i]))
                IN  /\ MaxLineLength(after.text) <= limit
                    /\ \A d \in QualityCalls :
                           (~calls[d].option /\ calls[d].arg = calls[c].out.scene) =>
                               OverflowIssues(calls[d].out.issues, after.id) = {}

BoundElementsOf(element) ==
    IF "boundElements" \in DOMAIN element THEN element.boundElements ELSE <<>>

\* no connector id occurs twice among the back-references of an element
NoDuplicateRefs(element) ==
    \A j, k \in 1..Len(BoundElementsOf(element)) :
        BoundElementsOf(element)[j].id = BoundElementsOf(element)[k].id => j = k

\* the elements of a document that are not texts
NonTexts(scene) ==
    {i \in 1..Len(scene.elements) : scene.elements[i].type # "text"}

DataUrlTexts ==
    {"data:1", "data:2", "data:image/png;base64,QQ==",
     "data:image/png;base64,ZGF0YTox"}

HasStructuralIssue(doc) ==
    \/ \E i \in 1..Len(doc.elements) : doc.elements[i].id = ""
    \/ \E i, j \in 1..Len(doc.elements) :
          i < j /\ doc.elements[i].id = doc.elements[j].id
    \/ \E fileId \in DOMAIN doc.files :
          \/ "dataURL" \notin DOMAIN doc.files[fileId]
          \/ doc.files[fileId].dataURL \notin DataUrlTexts

Validated == {c \in Issued : calls[c].kind = "validate" /\ calls[c].pc = "done"
                                /\ calls[c].result = "ok"}

C26_ValidIffNoIssuesAndReadOnly ==
    \A c \in Validated :
        LET report == calls[c].report
            doc == calls[c].scene
        IN  /\ report.valid <=>
                   /\ ~HasStructuralIssue(doc)
                   /\ \A k \in 1..Len(report.qualityIssues) :
                          report.qualityIssues[k].severity # "error"
            /\ (Len(report.issues.elements) = 0 /\ report.issues.files = {})
                   <=> ~HasStructuralIssue(doc)
            /\ c = Len(calls) =>
                   /\ files[calls[c].sceneId].doc = doc
                   /\ files[calls[c].sceneId].doc.revisionHash = report.revisionHash

\* after a patch added a label that overflows, a validateScene call reported
\* the warning and found the scene valid; the file is as the patch left it
C26_Witness ==
    \E c \in Validated :
        /\ c = Len(calls)
        /\ calls[c].report.valid
        /\ \E k \in 1..Len(calls[c].report.qualityIssues) :
              calls[c].report.qualityIssues[k].code = "TEXT_OVERFLOW"
        /\ files["a"].doc.elementCount = 3


(***************************************************************************)
(* C27: an attachFile call whose bytes are those of a file the scene       *)
(* already holds returns that file's id with deduplicated = true and       *)
(* leaves files and fileCount as they were; this holds for the second of   *)
(* two attachFile calls with the same bytes, one after the other or        *)
(* overlapping.                                                            *)
(***************************************************************************)
\* the document the scene file held when the body of call c ran: the calls
\* of one service on one scene run their bodies in arrival order, so it is the
\* document of the latest earlier call that returned, or the seed
PriorDoc(c) ==
    LET earlier == {p \in 1..(c - 1) : calls[p].result = "ok"}
    IN  IF earlier = {} THEN SeedDoc(calls[c].sceneId)
        ELSE calls[CHOOSE p \in earlier : \A q \in earlier : q <= p].scene

Attached == {c \in Issued : calls[c].kind = "attach" /\ calls[c].pc = "done"
                               /\ calls[c].result = "ok"}

\* the files of the document that hold the payload of attachFile call c
SameBytes(c) ==
    LET input == AttachInput(calls[c].batch)
        prior == PriorDoc(c).files
    IN  {fileId \in DOMAIN prior :
            /\ "dataURL" \in DOMAIN prior[fileId]
            /\ prior[fileId].dataURL = DataURL(input.mimeType, input.base64)}

C27_SameBytesAreDeduplicated ==
    \A c \in Attached :
        SameBytes(c) # {} =>
            /\ calls[c].report.deduplicated
            /\ calls[c].report.fileId \in SameBytes(c)
            /\ calls[c].scene.files = PriorDoc(c).files
            /\ calls[c].scene.fileCount = PriorDoc(c).fileCount


(***************************************************************************)
(* C28: detachFile of an id the scene holds a file under returns           *)
(* removed = true and removes that file and no other; of an id it holds    *)
(* none under (the second of two detachFile calls of one id included) it   *)
(* returns removed = false and leaves the persisted document as it was.    *)
(***************************************************************************)
Detached == {c \in Issued : calls[c].kind = "detach" /\ calls[c].pc = "done"
                               /\ calls[c].result = "ok"}

\* no call is under way and c is the latest that returned
LatestReturned(c) ==
    /\ \A p \in Issued : calls[p].pc = "done"
    /\ \A p \in Issued : p > c => calls[p].result # "ok"

Renormalized ==
    {c \in Issued : calls[c].kind = "normalize"
                       /\ \E p \in 1..(c - 1) : calls[p].out.scene = calls[c].arg}

C29_NormalizeIsIdempotent ==
    \A c \in Renormalized : calls[c].out.scene = calls[c].arg

\* C29, amended: normalizing a document that normalize returned gives that
\* document back in every field but metadata.updatedAt, which holds the time
\* of the call.
C29_NormalizeIsIdempotentButForUpdatedAt ==
    \A c \in Renormalized :
        LET after == calls[c].out.scene
            before == calls[c].arg
        IN  /\ after.elements = before.elements
            /\ after.appState = before.appState
            /\ after.files = before.files
            /\ after.libraryItems = before.libraryItems
            /\ [after.metadata EXCEPT !.updatedAt = 0]
                   = [before.metadata EXCEPT !.updatedAt = 0]
            /\ after.metadata.updatedAt >= before.metadata.updatedAt

\* a document with two elements without ids was normalized, and what came
\* back was normalized at a later time with another random draw: the ids of
\* the first call were kept and only updatedAt moved
C29_Witness ==
    /\ Len(calls) >= 2
    /\ 2 \in Renormalized
    /\ Len(calls[1].arg.elements) = 2
    /\ "id" \notin DOMAIN calls[1].arg.elements[1]
    /\ calls[1].option # calls[2].option
    /\ calls[2].out.scene.elements[2].id = JsStr(RandomUUID(calls[1].option, 2))
    /\ calls[2].out.scene.metadata.updatedAt > calls[2].arg.metadata.updatedAt

(***************************************************************************)
(* C30: after normalize every element has a non-empty string id and        *)
(* finite numeric x, y, width, height and angle, whatever the input held   *)
(* in those fields (nothing, null, a non-number; for id the empty string   *)
(* or a non-string).                                                       *)
(***************************************************************************)
IsFiniteNumber(value) == value.t = "number"

C30_NormalizedElementsAreWellTyped ==
    \A c \in {k \in Issued : calls[k].kind = "normalize"} :
        \A i \in 1..Len(calls[c].out.scene.elements) :
            LET element == calls[c].out.scene.elements[i]
            IN  /\ element.id.t = "string" /\ element.id.s # ""
                /\ \A field \in {"x", "y", "width", "height", "angle"} :
                       IsFiniteNumber(element[field])


(***************************************************************************)
(* C31: two documents with the same elements, appState and files, and the  *)
(* same library items taken as a set (each item once, in any order), have  *)
(* the same revisionHash.                                                  *)
(***************************************************************************)
\* the documents applyPatch returned
Patched == {calls[c].out.scene : c \in {k \in Issued : calls[k].kind = "applyPatch"
                                                       /\ calls[k].out.ok}}

LibrarySet(doc) == {doc.libraryItems[i] : i \in 1..Len(doc.libraryItems)}

C31_HashIgnoresLibraryOrder ==
    \A doc, other \in Patched :
        (/\ doc.elements = other.elements
         /\ doc.appState = other.appState
         /\ doc.files = other.files
         /\ LibrarySet(doc) = LibrarySet(other)
         /\ Len(doc.libraryItems) = Cardinality(LibrarySet(doc))
         /\ Len(other.libraryItems) = Cardinality(LibrarySet(other)))
            => doc.revisionHash = other.revisionHash

(***************************************************************************)
(* C32: a setAppState operation without a merge flag shallow-merges the    *)
(* given state onto the existing appState, so keys it does not name keep   *)
(* their values; only merge = false replaces the whole appState.           *)
(***************************************************************************)
C32_OmittedMergeMerges ==
    \A c \in {k \in Issued : calls[k].kind = "applyPatch" /\ calls[k].out.ok} :
        LET operation == BatchOps(calls[c].option)[1]
            before == calls[c].arg.appState
            after == calls[c].out.scene.appState
        IN  operation.op = "setAppState" =>
                IF "merge" \in DOMAIN operation /\ ~operation.merge
                THEN after = operation.appState
                ELSE /\ \A key \in DOMAIN operation.appState :
                           after[key] = operation.appState[key]
                     /\ \A key \in DOMAIN before \ DOMAIN operation.appState :
                           key \in DOMAIN after /\ after[key] = before[key]


(***************************************************************************)
(* C33: load returns an independent copy: whatever the caller assigned to  *)
(* documents that load returned or that it passed to save, a later load of *)
(* the scene returns the document the scene file holds, on the cache-hit   *)
(* and on the cache-miss path.                                             *)
(***************************************************************************)
Loads == {c \in Issued : calls[c].kind = "load"}

C33_LoadReturnsIndependentCopy ==
    \A c \in Loads : calls[c].out = calls[c].onDisk

\* a document was loaded (miss), changed, saved, changed again, and loaded
\* again (hit): the second load returned what was saved, not the later change
C33_Witness ==
    /\ Len(calls) = 3
    /\ calls[1].kind = "load" /\ calls[1].path = "miss"
    /\ calls[2].kind = "save" /\ calls[2].out.name = "x"
    /\ calls[2].scene.name = "y"
    /\ calls[3].kind = "load" /\ calls[3].path = "hit"
    /\ calls[3].out.name = "x" /\ calls[3].scene.name = "x"
    /\ files["a"].doc.name = "x"


(***************************************************************************)
(* C34: load, save, exists and createScene reject a scene id that is empty *)
(* or holds a character outside [a-zA-Z0-9_-] with BAD_REQUEST before any  *)
(* scene file is read, created or modified, and no call ever names a path  *)
(* outside the storage root.                                               *)
(***************************************************************************)
IsSafeId(sceneId) ==
    sceneId # <<>> /\ \A i \in 1..Len(sceneId) :
        sceneId[i] \in SafeChars

\* the file system calls of call c that name a scene file (not the root)
SceneFileAccesses(c) ==
    {k \in 1..Len(calls[c].accessed) : calls[c].accessed[k][2] # <<>>}

C34_UnsafeIdsAreRejectedFirst ==
    \A c \in Issued :
        /\ ~IsSafeId(calls[c].sceneId) =>
               calls[c].result = "BAD_REQUEST" /\ SceneFileAccesses(c) = {}
        /\ \A k \in 1..Len(calls[c].accessed) :
               LET path == calls[c].accessed[k][2]
               IN  /\ ~(Len(path) >= 2 /\ SubSeq(path, 1, 2) = <<".", ".">>)
                   /\ \A i \in 1..Len(path) : path[i] # "/"

\* createScene under a safe id wrote its file, and a load of ../x was
\* rejected without touching the file system
C34_Witness ==
    /\ Len(calls) = 2
    /\ calls[1].kind = "create" /\ calls[1].result = "ok"
    /\ SceneFileAccesses(1) # {}
    /\ calls[2].kind = "load" /\ calls[2].sceneId = <<".", ".", "/", "x">>
    /\ calls[2].result = "BAD_REQUEST" /\ calls[2].accessed = <<>>


(***************************************************************************)
(* C35: a session's active-scene binding changes only through that         *)
(* session's own calls: an openScene that succeeds sets it to the scene, a *)
(* closeScene clears it only when it names the bound scene, a resetSession *)
(* clears it and reports whether there was one; a failed openScene, every  *)
(* other operation and every call of another session leave it unchanged.   *)
(***************************************************************************)
\* the calls that end in this step
EndsNow(c) ==
    /\ c \in 1..Len(calls') /\ calls'[c].pc = "done"
    /\ c \in Issued => calls[c].pc # "done"

\* the binding of the session after a step in which the call ended
BindingAfter(call, before) ==
    CASE call.kind = "open" /\ call.result = "ok" -> call.sceneId
      [] call.kind = "close" /\ before = call.sceneId -> NoActiveScene
      [] call.kind = "reset" -> NoActiveScene
      [] OTHER -> before

C35_BindingStep ==
    \A svc \in AllServices, sessionId \in SessionIds :
        LET before == sessionActiveScene[svc][sessionId]
            after == sessionActiveScene'[svc][sessionId]
            own == {c \in 1..Len(calls') :
                      /\ EndsNow(c) /\ calls'[c].svc = svc
                      /\ calls'[c].kind \in {"open", "close", "reset"}
                      /\ calls'[c].batch = sessionId}
        IN  /\ own = {} => after = before
            /\ \A c \in own :
                   /\ after = BindingAfter(calls'[c], before)
                   /\ calls'[c].kind = "reset" =>
                          calls'[c].report.clearedActiveScene = (before # NoActiveScene)

C35_BindingChangesOnlyByOwnCalls == [][C35_BindingStep]_vars

\* session s1 opened scene a, its openScene of the missing scene b failed, and
\* a closeScene of session s2 naming a ran: s1 is still bound to a
C35_Witness ==
    /\ Len(calls) = 3
    /\ calls[1].kind = "open" /\ calls[1].batch = "s1" /\ calls[1].result = "ok"
    /\ calls[2].kind = "open" /\ calls[2].batch = "s1" /\ calls[2].result = "NOT_FOUND"
    /\ calls[3].kind = "close" /\ calls[3].batch = "s2" /\ calls[3].sceneId = "a"
    /\ sessionActiveScene[1]["s1"] = "a"


(***************************************************************************)
(* C36: an image export that fails in the rendering collaborator, the      *)
(* launch of the browser and the opening of a page included, is reported   *)
(* as DEGRADED_MODE, and the scene file and what the store serves for the  *)
(* scene are as before.                                                    *)
(***************************************************************************)
\* the exports that failed after their load
FailedInEngine ==
    {c \in Issued : /\ calls[c].kind = "export" /\ calls[c].pc = "done"
                    /\ calls[c].result \notin {"ok", "NOT_FOUND", "PARSE_ERROR"}}

C36_RenderingFailureIsDegradedMode ==
    \A c \in FailedInEngine :
        /\ calls[c].result = "DEGRADED_MODE"
        /\ files[calls[c].sceneId].doc = SeedDoc(calls[c].sceneId)
        /\ Served(calls[c].svc, calls[c].sceneId) = SeedDoc(calls[c].sceneId)

(***************************************************************************)
(* C39: the BrowserEngine holds at most one launched browser: exports that *)
(* run concurrently while there is none launch one browser between them,   *)
(* and every browser launched is the one close() closes.                   *)
(***************************************************************************)
OpenBrowsers ==
    {object \in DOMAIN playwright :
        playwright[object].kind = "browser" /\ playwright[object].open}

C39_AtMostOneBrowser ==
    /\ Cardinality(OpenBrowsers) <= 1
    /\ \A object \in OpenBrowsers : browserEngine.browser = object

(***************************************************************************)
(* C40: the idle-recycle timer never fires into close() while an export is *)
(* in flight.                                                              *)
(***************************************************************************)
\* the step is the timer's callback calling close()
TimerCloses ==
    /\ Len(calls') = Len(calls) + 1
    /\ calls'[Len(calls')].kind = "close" /\ calls'[Len(calls')].batch = "timer"

C40_TimerStep == TimerCloses => Running = {}

C40_TimerSparesExportsInFlight == [][C40_TimerStep]_vars


(***************************************************************************)
(* C37: the lock map does not grow without bound: an entry of sceneLocks   *)
(* remains only while a call that went through withSceneLock for its scene *)
(* is unfinished, so once every call has completed the map is empty.       *)
(***************************************************************************)
C37_LockEntriesAreRemoved ==
    \A svc \in AllServices, sceneId \in SceneIds :
        sceneLocks[svc][LockKey(sceneId)] # NoPromise =>
            \E c \in Issued :
                /\ calls[c].svc = svc /\ calls[c].sceneId = sceneId
                /\ calls[c].kind \in LockedKinds /\ calls[c].pc # "done"


(***************************************************************************)
(* C38: a tool call that omits sceneId while its session has no active     *)
(* scene fails with the code BAD_REQUEST in its error payload and performs *)
(* no scene operation.                                                     *)
(***************************************************************************)
\* the tool calls that found no sceneId and no active scene
Unresolved ==
    {c \in Issued : calls[c].report.kind = "resolve" /\
                    calls[c].report.active = NoActiveScene}

C38_NoSceneIdIsBadRequest ==
    \A c \in Unresolved :
        /\ calls[c].pc = "done" /\ calls[c].result = "BAD_REQUEST"
        /\ calls[c].scene = NoDoc /\ ~calls[c].ranBody

====
